---- MODULE Spec2Model ----
(***************************************************************************)
(* Model of the real-time synchronisation subsystem of the Flipswitch      *)
(* JavaScript SDK: the SseClient (src/sse-client.ts, first revision in     *)
(* src/unnamed/part_003, lines 66-410).                                    *)
(*                                                                         *)
(* Text is modelled as a sequence of tokens.  A token is an indivisible    *)
(* run of characters ("event:", "data:", " ", "\n", an event-type name, a  *)
(* payload); every string operation of the code (split, startsWith, slice, *)
(* trim, JSON.parse) is computed on these sequences.                       *)
(***************************************************************************)
EXTENDS Integers, Sequences, FiniteSets, TLC

\* ------------------------------------------------------------------ bounds
\* connection attempts one client may start in a behaviour
MaxAttempts == 6
\* event records the server writes on one connection, in the stream model
MaxRecords == 2
\* event records the server writes on one connection, in the control model
CtlRecords == 1
\* SseClients one provider may create in a behaviour
MaxClients == 2
\* connection attempts the SseClients of one provider may start, in total
MaxProviderAttempts == 2
\* refreshFlags() calls that may be in flight at once
MaxRefreshes == 1
\* online/offline listener pairs one provider may have registered at once
MaxListeners == 1
\* largest maxSseRetries option tried
MaxSseRetries == 2

\* --------------------------------------------------------------- constants
MIN_RETRY_DELAY == 1000
MAX_RETRY_DELAY == 30000

NULL == "null"
UNDEFINED == "undefined"
\* abortController = null: no attempt is controlled
NO_ATTEMPT == 0
\* reconnectTimeout = null: no timer handle is held
NO_TIMER == 0

VARIABLES
  status,            \* SseClient.status
  closed,            \* SseClient.closed
  paused,            \* SseClient.paused
  retryDelay,        \* SseClient.retryDelay
  reconnectTimeout,  \* SseClient.reconnectTimeout: NO_TIMER or a timer handle
  timers,            \* the pending setTimeout timers: [id: handle, delay: ms]
  abortController,   \* SseClient.abortController: NO_ATTEMPT or the attempt it controls
  attempts,          \* every connectWithFetch() invocation, in start order
  dropped,           \* completions of attempts that arrived after close()
  failures,          \* connection failures and stream ends since the last
                     \* 'connected', not counting the client's own aborts
  firings,           \* reconnect timers fired since the delay was last reset
  options,           \* FlipswitchProvider: the options it was constructed with
  providerStatus,    \* FlipswitchProvider._status
  sseClient,         \* FlipswitchProvider.sseClient: NO_CLIENT or an index of clients
  clients,           \* every SseClient the provider created, in creation order
  pollingTimer,      \* FlipswitchProvider.pollingTimer is not null
  isPollingFallbackActive,  \* FlipswitchProvider.isPollingFallbackActive
  sseRetryCount,     \* FlipswitchProvider.sseRetryCount
  isOnline,          \* FlipswitchProvider._isOnline
  hasHandlers,       \* FlipswitchProvider.onlineHandler/offlineHandler are not null
  listeners,         \* online/offline listener pairs registered on window
  inits,             \* the initialize() calls in flight: what each waits for
  closing,           \* onClose() calls waiting for the collaborator's onClose
  refreshes,         \* refreshFlags() calls waiting for the collaborator
  emitted,           \* what the last step let the outside see, in order: the
                     \* provider events emitted, log lines, how a call
                     \* settled; and first the response the step received
  errorsReported,    \* 'error' statuses the SseClients reported since the last
                     \* 'connected' status any of them reported
  accepting,         \* the events endpoint answers every request with 200 and
                     \* keeps the stream open
  flagChanges,       \* the handleFlagChange() calls: those waiting for the
                     \* collaborator (pending), the events the SseClients
                     \* handed over (delivered), the calls of the user's
                     \* onFlagChange (userCalls), the browserCache.invalidate
                     \* calls (invalidated), and how many
                     \* ConfigurationChanged events the calls emitted
  hidden,            \* document.hidden
  cache,             \* FlagCache.cache: the entries, by key
  ttlMs,             \* FlagCache.ttlMs
  now,               \* Date.now()
  lastSet,           \* by key, the value and the time of the last set() call
  storage,           \* BrowserCache.storage: "null", or what localStorage does
  items,             \* the items of window.localStorage, by key
  returned           \* the last cache operation called and what it returned

\* the variables of one SseClient observed alone
svars == <<status, closed, paused, retryDelay, reconnectTimeout, timers, abortController,
           attempts, dropped, failures, firings>>
\* the variables of the provider and of the SseClients it creates
pvars == <<options, providerStatus, sseClient, clients, pollingTimer,
           isPollingFallbackActive, sseRetryCount, isOnline, hasHandlers, listeners,
           inits, closing, refreshes, emitted, errorsReported, accepting,
           flagChanges, hidden>>
\* the variables of the two caches
cvars == <<cache, ttlMs, now, lastSet, storage, items, returned>>
vars == <<svars, pvars, cvars>>

Min(a, b) == IF a < b THEN a ELSE b

\* ------------------------------------------------------------ text helpers
SP == " "
NL == "\n"
EVENT_PREFIX == "event:"
DATA_PREFIX == "data:"

\* payloads the server may put after "data:"
P_FLAG_A == "{\"flagKey\":\"my-flag\",\"timestamp\":\"2025-01-01T00:00:00Z\"}"
P_CONFIG == "{\"timestamp\":\"2025-06-15T12:00:00Z\"}"
P_BAD == "{not valid json!!!"

\* JSON.parse on a payload string: the parsed object (a property the text does
\* not give reads as undefined), or a thrown SyntaxError
JSONparse(data) ==
  IF data = <<P_FLAG_A>>
    THEN [throws |-> FALSE, flagKey |-> "my-flag",
          timestamp |-> "2025-01-01T00:00:00Z"]
  ELSE IF data = <<P_CONFIG>>
    THEN [throws |-> FALSE, flagKey |-> UNDEFINED,
          timestamp |-> "2025-06-15T12:00:00Z"]
  ELSE [throws |-> TRUE, flagKey |-> UNDEFINED, timestamp |-> UNDEFINED]

\* index of the first NL of s, or 0
RECURSIVE IndexOfNL(_, _)
IndexOfNL(s, i) ==
  IF i > Len(s) THEN 0
  ELSE IF s[i] = NL THEN i
  ELSE IndexOfNL(s, i + 1)

\* String.prototype.split('\n'): the pieces between newlines, never empty
RECURSIVE split(_)
split(s) ==
  LET k == IndexOfNL(s, 1)
  IN IF k = 0 THEN <<s>>
     ELSE <<SubSeq(s, 1, k - 1)>> \o split(SubSeq(s, k + 1, Len(s)))

RECURSIVE trimStart(_)
trimStart(s) ==
  IF s # <<>> /\ Head(s) = SP THEN trimStart(Tail(s)) ELSE s

RECURSIVE trimEnd(_)
trimEnd(s) ==
  IF s # <<>> /\ s[Len(s)] = SP THEN trimEnd(SubSeq(s, 1, Len(s) - 1)) ELSE s

\* String.prototype.trim
trim(s) == trimEnd(trimStart(s))

startsWith(line, prefix) == line # <<>> /\ Head(line) = prefix

\* what sendEvent() of the test server writes: "event: T\ndata: D\n\n"
Record(type, payload) ==
  <<EVENT_PREFIX, SP, type, NL, DATA_PREFIX, SP, payload, NL, NL>>

\* ---------------------------------------------------------- event dispatch
ChangeEvent(flagKey, timestamp) == [flagKey |-> flagKey, timestamp |-> timestamp]

\* handleEvent with config-updated forwarding the payload's own flagKey
handleEvent_ConfigKey(eventType, data) ==
  IF eventType \in {<<"flag-updated">>, <<"config-updated">>} THEN
    LET parsed == JSONparse(data)
    IN IF parsed.throws THEN <<>>
       ELSE <<ChangeEvent(parsed.flagKey, parsed.timestamp)>>
  ELSE <<>>

\* handleEvent(eventType, data): the FlagChangeEvents handed to onFlagChange
handleEvent(eventType, data) ==
  IF eventType = <<"heartbeat">> THEN <<>>
  ELSE IF eventType = <<"flag-updated">> THEN
    LET parsed == JSONparse(data)
    IN IF parsed.throws THEN <<>>
       ELSE <<ChangeEvent(parsed.flagKey, parsed.timestamp)>>
  ELSE IF eventType = <<"config-updated">> THEN
    LET parsed == JSONparse(data)
    IN IF parsed.throws THEN <<>>
       ELSE <<ChangeEvent(NULL, parsed.timestamp)>>
  ELSE <<>>

\* the for-loop of processStream over the complete lines of one chunk; the
\* result is the sequence of handleEvent(eventType, eventData) calls it makes
RECURSIVE processLines(_, _, _)
processLines(lines, eventType, eventData) ==
  IF lines = <<>> THEN <<>>
  ELSE
    LET line == Head(lines)
        rest == Tail(lines)
    IN IF startsWith(line, EVENT_PREFIX)
         THEN processLines(rest, trim(Tail(line)), eventData)
       ELSE IF startsWith(line, DATA_PREFIX)
         THEN processLines(rest, eventType, trim(Tail(line)))
       ELSE IF line = <<>> /\ eventData # <<>>
         THEN <<[type |-> eventType, data |-> eventData]>>
              \o processLines(rest, <<>>, <<>>)
       ELSE processLines(rest, eventType, eventData)

RECURSIVE dispatchAll(_)
dispatchAll(calls) ==
  IF calls = <<>> THEN <<>>
  ELSE handleEvent(Head(calls).type, Head(calls).data) \o dispatchAll(Tail(calls))

\* one iteration of the read loop on a chunk: buffer += chunk; split; pop
processChunk(buffer, chunk) ==
  LET lines == split(buffer \o chunk)
      calls == processLines(SubSeq(lines, 1, Len(lines) - 1), <<>>, <<>>)
  IN [buffer |-> lines[Len(lines)], calls |-> calls]

\* ------------------------------------------------------------ the client
NewAttempt ==
  [phase |-> "fetching", aborted |-> FALSE, buffer |-> <<>>, wire |-> <<>>,
   sent |-> <<>>, received |-> <<>>, handled |-> <<>>, dispatched |-> <<>>]

\* an invocation of connectWithFetch none of whose continuations can run again
SettledAttempt == [NewAttempt EXCEPT !.phase = "settled"]

\* the client's fields as one record; notified collects the statuses handed to
\* onStatusChange during the step
Cur ==
  [status |-> status, closed |-> closed, paused |-> paused,
   retryDelay |-> retryDelay, reconnectTimeout |-> reconnectTimeout,
   timers |-> timers,
   abortController |-> abortController, attempts |-> attempts,
   notified |-> <<>>]

\* "this.status = status; this.onStatusChange?.(status)": the status the
\* listener is told is the status stored
updateStatus(c, s) == [c EXCEPT !.status = s, !.notified = Append(@, s)]

\* AbortController.abort() of attempt id: its fetch or its pending read will
\* reject with AbortError; no further chunk is delivered to its read loop, so
\* the stream state of the attempt is dead from here on
abort(c, id) ==
  IF c.attempts[id].phase = "settled" THEN c
  ELSE [c EXCEPT !.attempts[id] =
          [NewAttempt EXCEPT !.phase = c.attempts[id].phase, !.aborted = TRUE]]

\* "if (this.abortController) this.abortController.abort()"
abortExisting(c) ==
  IF c.abortController # NO_ATTEMPT THEN abort(c, c.abortController) ELSE c

\* the early return of connect() without the test of paused
connectGuard_ClosedOnly(c) == c.closed

\* the early return of connect() without the test of closed
connectGuard_PausedOnly(c) == c.paused

\* "if (this.closed || this.paused) return"
connectGuard(c) == c.closed \/ c.paused

\* connect() that forgets to abort the attempt in flight
connect_NoAbort(c) ==
  IF connectGuard(c) THEN c
  ELSE
    LET b == [c EXCEPT !.attempts = Append(@, NewAttempt),
                       !.abortController = Len(c.attempts) + 1]
    IN updateStatus(b, "connecting")

\* connect() that leaves the status as it is, to be updated in a later tick
connect_StatusLater(c) ==
  IF connectGuard(c) THEN c
  ELSE
    LET a == abortExisting(c)
    IN [a EXCEPT !.attempts = Append(@, NewAttempt),
                 !.abortController = Len(a.attempts) + 1]

connect(c) ==
  IF connectGuard(c) THEN c
  ELSE
    LET a == abortExisting(c)
        b == [a EXCEPT !.attempts = Append(@, NewAttempt),
                       !.abortController = Len(a.attempts) + 1]
    IN updateStatus(b, "connecting")

\* clearTimeout(handle): a timer that already fired is not pending any more
clearTimeout(c, handle) == [c EXCEPT !.timers = {t \in @ : t.id # handle}]

\* "if (this.reconnectTimeout) { clearTimeout(...); this.reconnectTimeout = null }"
clearReconnect(c) ==
  IF c.reconnectTimeout # NO_TIMER
    THEN [clearTimeout(c, c.reconnectTimeout) EXCEPT !.reconnectTimeout = NO_TIMER]
    ELSE c

pause(c) ==
  IF c.paused \/ c.closed THEN c
  ELSE
    LET p1 == [c EXCEPT !.paused = TRUE]
        p2 == [abortExisting(p1) EXCEPT !.abortController = NO_ATTEMPT]
    IN updateStatus(clearReconnect(p2), "disconnected")

\* resume() that keeps the retry delay reached before the pause
resume_KeepDelay(c) ==
  IF ~c.paused \/ c.closed THEN c
  ELSE connect([c EXCEPT !.paused = FALSE])

resume(c) ==
  IF ~c.paused \/ c.closed THEN c
  ELSE connect([c EXCEPT !.paused = FALSE, !.retryDelay = MIN_RETRY_DELAY])

\* scheduleReconnect() that does not clear the timer it replaces
scheduleReconnect_NoClear(c, handle) ==
  IF c.closed THEN c
  ELSE [c EXCEPT !.timers = @ \cup {[id |-> handle, delay |-> c.retryDelay]},
                 !.reconnectTimeout = handle]

\* scheduleReconnect(); handle is the value setTimeout returns
scheduleReconnect(c, handle) ==
  IF c.closed THEN c
  ELSE
    LET c1 == IF c.reconnectTimeout # NO_TIMER
                THEN clearTimeout(c, c.reconnectTimeout) ELSE c
    IN [c1 EXCEPT !.timers = @ \cup {[id |-> handle, delay |-> c.retryDelay]},
                  !.reconnectTimeout = handle]

\* the timer callback without the increase of the delay
reconnectCallback_NoBackoff(c) == IF ~c.closed THEN connect(c) ELSE c

\* the callback scheduleReconnect hands to setTimeout
reconnectCallback(c) ==
  IF ~c.closed
    THEN LET d == connect(c)
         IN [d EXCEPT !.retryDelay = Min(d.retryDelay * 2, MAX_RETRY_DELAY)]
    ELSE c

close(c) ==
  LET c1 == updateStatus([c EXCEPT !.closed = TRUE], "disconnected")
      c2 == [abortExisting(c1) EXCEPT !.abortController = NO_ATTEMPT]
  IN clearReconnect(c2)

\* connectWithFetch after "await fetch" resolved with an ok response and a body
fetchResolved(c, id) ==
  LET c1 == updateStatus(c, "connected")
  IN [c1 EXCEPT !.retryDelay = MIN_RETRY_DELAY, !.attempts[id].phase = "open"]

\* the catch handlers without the test of closed
catchError_NoClosedCheck(c, id) ==
  LET c1 == [c EXCEPT !.attempts[id] = SettledAttempt]
  IN scheduleReconnect(updateStatus(c1, "error"), id)

\* both catch handlers of connectWithFetch (fetch failure, read failure)
catchError(c, id) ==
  LET c1 == [c EXCEPT !.attempts[id] = SettledAttempt]
  IN IF ~c1.closed THEN scheduleReconnect(updateStatus(c1, "error"), id) ELSE c1

\* the "done" branch of processStream without the reconnect
streamDone_NoReconnect(c, id) ==
  updateStatus([c EXCEPT !.attempts[id] = SettledAttempt], "disconnected")

\* the "done" branch of processStream
streamDone(c, id) ==
  LET c1 == [c EXCEPT !.attempts[id] = SettledAttempt]
  IN scheduleReconnect(updateStatus(c1, "disconnected"), id)

\* one chunk read by processStream of attempt id
readChunk(c, id, chunk) ==
  LET a == c.attempts[id]
      r == processChunk(a.buffer, chunk)
  IN [c EXCEPT !.attempts[id].buffer = r.buffer,
               !.attempts[id].received = @ \o chunk,
               !.attempts[id].handled = @ \o r.calls,
               !.attempts[id].dispatched = @ \o dispatchAll(r.calls)]

\* one chunk read by processStream of attempt id, when the flag-change callback
\* invoked by the j-th handleEvent call of the chunk calls close() or pause()
\* on the client: the for-loop over the lines of the chunk goes on to its end.
\* abort() has emptied the stream record of the attempt, so what the record
\* holds afterwards was handled and dispatched after the call.
readChunkReentrant(c, id, chunk, j, call) ==
  LET a == c.attempts[id]
      r == processChunk(a.buffer, chunk)
      pre == SubSeq(r.calls, 1, j)
      post == SubSeq(r.calls, j + 1, Len(r.calls))
      c1 == [c EXCEPT !.attempts[id].buffer = r.buffer,
                      !.attempts[id].received = @ \o chunk,
                      !.attempts[id].handled = @ \o pre,
                      !.attempts[id].dispatched = @ \o dispatchAll(pre)]
      c2 == IF call = "close" THEN close(c1) ELSE pause(c1)
  IN [c2 EXCEPT !.attempts[id].handled = @ \o post,
                !.attempts[id].dispatched = @ \o dispatchAll(post)]

\* ------------------------------------------------------------ the provider
\* sseClient = null
NO_CLIENT == 0
DEFAULT_MAX_SSE_RETRIES == 5

\* the options of a provider constructed with defaults in a browser
DefaultOptions ==
  [enableRealtime |-> TRUE, enablePollingFallback |-> TRUE,
   maxSseRetries |-> DEFAULT_MAX_SSE_RETRIES, offlineMode |-> TRUE, isBrowser |-> TRUE]

\* the option sets tried: isBrowser stands for "typeof window !== 'undefined'"
Options ==
  {[DefaultOptions EXCEPT !.maxSseRetries = n] : n \in {1, MaxSseRetries}}
  \cup {[DefaultOptions EXCEPT !.maxSseRetries = 1, !.enablePollingFallback = FALSE,
                               !.offlineMode = FALSE],
        [DefaultOptions EXCEPT !.maxSseRetries = 1, !.enableRealtime = FALSE],
        [DefaultOptions EXCEPT !.maxSseRetries = 1, !.isBrowser = FALSE]}

\* a new SseClient
NewClient ==
  [status |-> "disconnected", closed |-> FALSE, paused |-> FALSE,
   retryDelay |-> MIN_RETRY_DELAY, reconnectTimeout |-> NO_TIMER, timers |-> {},
   abortController |-> NO_ATTEMPT, attempts |-> <<>>, notified |-> <<>>]

\* the provider's fields as one record, with nothing emitted yet in this step
PCur ==
  [options |-> options, status |-> providerStatus, sseClient |-> sseClient,
   clients |-> clients, pollingTimer |-> pollingTimer,
   isPollingFallbackActive |-> isPollingFallbackActive,
   sseRetryCount |-> sseRetryCount, isOnline |-> isOnline,
   hasHandlers |-> hasHandlers, listeners |-> listeners, refreshes |-> refreshes,
   emitted |-> <<>>, errorsReported |-> errorsReported,
   flagChanges |-> flagChanges, hidden |-> hidden]

emit(p, event) == [p EXCEPT !.emitted = Append(@, event)]

\* stopPolling() that leaves the fallback flag set
stopPolling_KeepFlag(p) ==
  IF p.pollingTimer THEN [p EXCEPT !.pollingTimer = FALSE] ELSE p

stopPolling(p) ==
  IF p.pollingTimer
    THEN [p EXCEPT !.pollingTimer = FALSE, !.isPollingFallbackActive = FALSE]
    ELSE p

\* startPollingFallback() that gives the stream up: it closes the SseClient
startPollingFallback_ClosesStream(p) ==
  IF p.isPollingFallbackActive \/ ~p.options.enablePollingFallback THEN p
  ELSE LET p1 == [emit(p, "log: Starting polling fallback")
                    EXCEPT !.isPollingFallbackActive = TRUE, !.pollingTimer = TRUE]
       IN IF p1.sseClient = NO_CLIENT THEN p1
          ELSE [p1 EXCEPT !.clients[p1.sseClient] =
                  [close(@) EXCEPT !.timers = {}, !.reconnectTimeout = NO_TIMER,
                                   !.notified = <<>>]]

\* startPollingFallback() that creates the timer and leaves the flag unset
startPollingFallback_NoFlag(p) ==
  IF p.isPollingFallbackActive \/ ~p.options.enablePollingFallback THEN p
  ELSE [emit(p, "log: Starting polling fallback") EXCEPT !.pollingTimer = TRUE]

startPollingFallback(p) ==
  IF p.isPollingFallbackActive \/ ~p.options.enablePollingFallback THEN p
  ELSE [emit(p, "log: Starting polling fallback")
          EXCEPT !.isPollingFallbackActive = TRUE, !.pollingTimer = TRUE]

\* the 'error' branch of the status callback with the threshold one too high
onError_LateFallback(p) ==
  LET p1 == [p EXCEPT !.sseRetryCount = @ + 1]
      p2 == IF p1.sseRetryCount > p1.options.maxSseRetries
               /\ p1.options.enablePollingFallback
              THEN startPollingFallback(p1) ELSE p1
  IN emit([p2 EXCEPT !.status = "STALE"], "Stale")

\* the 'error' branch of the status callback of startSseConnection
onError(p) ==
  LET p1 == [p EXCEPT !.sseRetryCount = @ + 1]
      p2 == IF p1.sseRetryCount >= p1.options.maxSseRetries
               /\ p1.options.enablePollingFallback
              THEN startPollingFallback(p1) ELSE p1
  IN emit([p2 EXCEPT !.status = "STALE"], "Stale")

\* the 'connected' branch of the status callback making every status READY
onConnected_AlwaysReady(p) ==
  LET p1 == [p EXCEPT !.sseRetryCount = 0]
      p2 == IF p1.isPollingFallbackActive
              THEN stopPolling(emit(p1, "log: SSE reconnected")) ELSE p1
  IN emit([p2 EXCEPT !.status = "READY"], "Ready")

\* the 'connected' branch of the status callback of startSseConnection
onConnected(p) ==
  LET p1 == [p EXCEPT !.sseRetryCount = 0]
      p2 == IF p1.isPollingFallbackActive
              THEN stopPolling(emit(p1, "log: SSE reconnected")) ELSE p1
  IN IF p2.status = "STALE" THEN emit([p2 EXCEPT !.status = "READY"], "Ready")
     ELSE p2

\* the status callback the provider hands to its SseClients
onStatusChange(p, s) ==
  IF s = "error" THEN onError(p)
  ELSE IF s = "connected" THEN onConnected(p)
  ELSE p

\* the count of 'error' reports since the last 'connected' report, after one
\* more report of status s
countReport(n, s) ==
  IF s = "error" THEN n + 1 ELSE IF s = "connected" THEN 0 ELSE n

RECURSIVE notifyAll(_, _)
notifyAll(p, statuses) ==
  IF statuses = <<>> THEN p
  ELSE LET s == Head(statuses)
           q == onStatusChange(p, s)
       IN notifyAll([q EXCEPT !.errorsReported = countReport(@, s)], Tail(statuses))

\* a closed SseClient is inert: closed is never reset, every continuation of
\* its attempts tests closed or was aborted, and its timer was cleared.  Its
\* attempts are taken as settled at once and the fields nothing reads any more
\* are put back to their initial values.
retire(c) ==
  IF ~c.closed THEN c
  ELSE [c EXCEPT !.attempts = [k \in DOMAIN @ |-> SettledAttempt],
                 !.retryDelay = MIN_RETRY_DELAY, !.paused = FALSE]

\* client i has run a method or a continuation and is now c: the provider has
\* been told the statuses c notified on the way
setClient(p, i, c) ==
  notifyAll([p EXCEPT !.clients[i] = [retire(c) EXCEPT !.notified = <<>>]], c.notified)

startSseConnection(p) ==
  LET i == Len(p.clients) + 1
      p1 == [p EXCEPT !.clients = Append(@, NewClient), !.sseClient = i]
  IN setClient(p1, i, connect(NewClient))

\* refreshFlags() up to its await
refreshFlags(p) == [p EXCEPT !.refreshes = @ + 1]

\* refreshFlags() after its await: ok tells whether the collaborator resolved
refreshFlagsDone(p, ok) ==
  LET p1 == [p EXCEPT !.refreshes = @ - 1]
  IN IF ~ok THEN p1
     ELSE LET p2 == IF p1.status = "STALE"
                      THEN emit([p1 EXCEPT !.status = "READY"], "Ready")
                      ELSE p1
          IN emit(p2, "ConfigurationChanged")

\* the interval callback without the test of _isOnline
pollingCallback_AlwaysRefresh(p) == refreshFlags(p)

\* the callback startPollingFallback() hands to setInterval, up to its await
pollingCallback(p) == IF ~p.isOnline THEN p ELSE refreshFlags(p)

setupOfflineHandling(p) ==
  IF ~p.options.isBrowser \/ ~p.options.offlineMode THEN p
  ELSE [p EXCEPT !.hasHandlers = TRUE, !.listeners = @ + 1]

\* onlineHandler that resumes the stream but triggers no refresh
onlineHandler_NoRefresh(p) ==
  LET p1 == [p EXCEPT !.isOnline = TRUE]
  IN IF p1.options.enableRealtime /\ p1.sseClient # NO_CLIENT
       THEN setClient(p1, p1.sseClient, resume(p1.clients[p1.sseClient]))
       ELSE p1

onlineHandler(p) ==
  LET p1 == [p EXCEPT !.isOnline = TRUE]
      p2 == IF p1.options.enableRealtime /\ p1.sseClient # NO_CLIENT
              THEN setClient(p1, p1.sseClient, resume(p1.clients[p1.sseClient]))
              ELSE p1
  IN refreshFlags(p2)

\* offlineHandler that does not stop the fallback polling
offlineHandler_KeepPolling(p) ==
  LET p1 == [p EXCEPT !.isOnline = FALSE]
      p2 == IF p1.sseClient # NO_CLIENT
              THEN setClient(p1, p1.sseClient, pause(p1.clients[p1.sseClient]))
              ELSE p1
  IN IF p2.status # "STALE" THEN emit([p2 EXCEPT !.status = "STALE"], "Stale")
     ELSE p2

offlineHandler(p) ==
  LET p1 == [p EXCEPT !.isOnline = FALSE]
      p2 == IF p1.sseClient # NO_CLIENT
              THEN setClient(p1, p1.sseClient, pause(p1.clients[p1.sseClient]))
              ELSE p1
      p3 == stopPolling(p2)
  IN IF p3.status # "STALE" THEN emit([p3 EXCEPT !.status = "STALE"], "Stale")
     ELSE p3

\* initialize() up to its first await, or to its return when offline
\* initialize() up to its first await, without the offline branch
initializeStart_IgnoresOffline(p) ==
  setupOfflineHandling([p EXCEPT !.status = "NOT_READY"])

initializeStart(p) ==
  LET p1 == setupOfflineHandling([p EXCEPT !.status = "NOT_READY"])
  IN IF ~p1.isOnline /\ p1.options.offlineMode
       THEN emit(emit([p1 EXCEPT !.status = "STALE"], "Stale"), "initialize resolved")
       ELSE p1

\* whether initialize() returns before its first await
initializeOffline(p) == ~p.isOnline /\ p.options.offlineMode

\* the end of initialize(), after the try block
initializeFinish(p) ==
  LET p1 == IF p.options.enableRealtime THEN startSseConnection(p) ELSE p
  IN emit(emit([p1 EXCEPT !.status = "READY"], "Ready"), "initialize resolved")

\* initialize() throws out of the probe's try block
initializeThrow(p) == emit([p EXCEPT !.status = "ERROR"], "initialize rejected")

\* response.ok: the status is in the range 200-299
ok(response) == response \in {"200", "204"}

\* initialize() after the probe, rejecting only 401 and 403
initializeProbed_AuthOnly(p, response) ==
  IF response = "network error" THEN initializeThrow(p)
  ELSE IF response \in {"401", "403"} THEN initializeThrow(p)
  ELSE initializeFinish(p)

\* initialize() after the probe, taking 404 for a failure
initializeProbed_No404(p, response) ==
  IF response = "network error" THEN initializeThrow(p)
  ELSE IF response \in {"401", "403"} THEN initializeThrow(p)
  ELSE IF ~ok(response) THEN initializeThrow(p)
  ELSE initializeFinish(p)

\* initialize() after the validation probe has answered with response (an HTTP
\* status, or "network error" when the fetch rejected)
initializeProbed(p, response) ==
  IF response = "network error" THEN initializeThrow(p)
  ELSE IF response \in {"401", "403"} THEN initializeThrow(p)
  ELSE IF ~ok(response) /\ response # "404" THEN initializeThrow(p)
  ELSE initializeFinish(p)

\* onClose() up to its await
onCloseStart(p) ==
  LET p1 == IF p.sseClient # NO_CLIENT
              THEN setClient(p, p.sseClient, close(p.clients[p.sseClient]))
              ELSE p
      p2 == stopPolling([p1 EXCEPT !.sseClient = NO_CLIENT])
  IN IF p2.options.isBrowser /\ p2.hasHandlers
       THEN [p2 EXCEPT !.hasHandlers = FALSE, !.listeners = @ - 1]
       ELSE p2

\* onClose() after its await
onCloseDone(p) == [p EXCEPT !.status = "NOT_READY"]

reconnectSse(p) ==
  IF p.options.enableRealtime /\ p.sseClient # NO_CLIENT
    THEN startSseConnection(setClient(p, p.sseClient, close(p.clients[p.sseClient])))
    ELSE p

\* getSseStatus()
getSseStatus(p) ==
  IF p.sseClient # NO_CLIENT THEN p.clients[p.sseClient].status ELSE "disconnected"

\* the provider variables in the state a constructor with options o leaves
ProviderInit(o, online) ==
  /\ options = o
  /\ providerStatus = "NOT_READY"
  /\ sseClient = NO_CLIENT
  /\ clients = <<>>
  /\ pollingTimer = FALSE
  /\ isPollingFallbackActive = FALSE
  /\ sseRetryCount = 0
  /\ isOnline = online
  /\ hasHandlers = FALSE
  /\ listeners = 0
  /\ inits = <<>>
  /\ closing = 0
  /\ refreshes = 0
  /\ emitted = <<>>
  /\ errorsReported = 0
  /\ accepting = FALSE
  /\ flagChanges = [pending |-> <<>>, delivered |-> <<>>, userCalls |-> <<>>,
                    invalidated |-> <<>>, notifications |-> 0]
  /\ hidden = FALSE

\* no cache operation has been called
CachesIdle ==
  /\ cache = <<>>
  /\ ttlMs = 0
  /\ now = 0
  /\ lastSet = <<>>
  /\ storage = "null"
  /\ items = <<>>
  /\ returned = <<>>

\* the one SseClient of the client model, in the state its constructor leaves
ClientInit ==
  /\ status = "disconnected"
  /\ closed = FALSE
  /\ paused = FALSE
  /\ retryDelay = MIN_RETRY_DELAY
  /\ reconnectTimeout = NO_TIMER
  /\ timers = {}
  /\ abortController = NO_ATTEMPT
  /\ attempts = <<>>
  /\ dropped = 0
  /\ failures = 0
  /\ firings = 0

\* ---------------------------------------------------------------- actions
Commit(c) ==
  /\ status' = c.status
  /\ closed' = c.closed
  /\ paused' = c.paused
  /\ retryDelay' = c.retryDelay
  /\ reconnectTimeout' = c.reconnectTimeout
  /\ timers' = c.timers
  /\ abortController' = c.abortController
  /\ attempts' = c.attempts
  /\ UNCHANGED <<pvars, cvars>>

AttemptIds == 1..Len(attempts)
InFlight(id) == attempts[id].phase \in {"fetching", "open"}
\* an in-flight fetch or an open stream whose abort signal has not been triggered
Live(id) == InFlight(id) /\ ~attempts[id].aborted

Init == ClientInit /\ ProviderInit(DefaultOptions, TRUE) /\ CachesIdle

\* the application (or the provider) calls connect()
Connect ==
  LET d == connect(Cur)
  IN /\ Len(d.attempts) <= MaxAttempts
     /\ Commit(d)
     /\ UNCHANGED <<dropped, failures, firings>>

\* pause(), called by the visibility handler or the provider
Pause ==
  /\ Commit(pause(Cur))
  /\ UNCHANGED <<dropped, failures, firings>>

\* resume(), called by the visibility handler or the provider
Resume ==
  LET d == resume(Cur)
  IN /\ Len(d.attempts) <= MaxAttempts
     /\ Commit(d)
     /\ firings' = IF paused /\ ~closed THEN 0 ELSE firings
     /\ UNCHANGED <<dropped, failures>>

Close ==
  /\ Commit(close(Cur))
  /\ UNCHANGED <<dropped, failures, firings>>

\* a pending reconnect timer expires and runs its callback
TimerFire(t) ==
  /\ t \in timers
  /\ LET d == reconnectCallback([Cur EXCEPT !.timers = @ \ {t}])
     IN /\ Len(d.attempts) <= MaxAttempts
        /\ Commit(d)
  /\ firings' = IF ~closed THEN firings + 1 ELSE firings
  /\ UNCHANGED <<dropped, failures>>

\* fetch resolves with status 200 and a body
FetchOk(id) ==
  /\ attempts[id].phase = "fetching"
  /\ ~attempts[id].aborted
  /\ Commit(fetchResolved(Cur, id))
  /\ failures' = 0
  /\ firings' = 0
  /\ UNCHANGED dropped

\* fetch resolves with a non-ok status or no body, or rejects (network error)
FetchFail(id) ==
  /\ attempts[id].phase = "fetching"
  /\ ~attempts[id].aborted
  /\ Commit(catchError(Cur, id))
  /\ dropped' = IF closed THEN dropped + 1 ELSE dropped
  /\ failures' = IF closed THEN failures ELSE failures + 1
  /\ UNCHANGED firings

\* the fetch or the pending read of an aborted attempt rejects with AbortError
AbortReject(id) ==
  /\ InFlight(id)
  /\ attempts[id].aborted
  /\ Commit(catchError(Cur, id))
  /\ dropped' = IF closed THEN dropped + 1 ELSE dropped
  /\ UNCHANGED <<failures, firings>>

\* reader.read() rejects: the network fails in the middle of the stream
ReadError(id) ==
  /\ attempts[id].phase = "open"
  /\ ~attempts[id].aborted
  /\ Commit(catchError(Cur, id))
  /\ dropped' = IF closed THEN dropped + 1 ELSE dropped
  /\ failures' = IF closed THEN failures ELSE failures + 1
  /\ UNCHANGED firings

\* reader.read() returns done: the server ended the response body
StreamEnd(id) ==
  /\ attempts[id].phase = "open"
  /\ ~attempts[id].aborted
  /\ attempts[id].wire = <<>>
  /\ Commit(streamDone(Cur, id))
  /\ failures' = failures + 1
  /\ UNCHANGED <<dropped, firings>>

\* the server writes one event record on the open response
ServerSend(id, type, payload) ==
  /\ attempts[id].phase = "open"
  /\ ~attempts[id].aborted
  /\ attempts' = [attempts EXCEPT
                    ![id].wire = @ \o Record(type, payload),
                    ![id].sent = Append(@, [type |-> type, payload |-> payload])]
  /\ UNCHANGED <<status, closed, paused, retryDelay, reconnectTimeout, timers,
                 abortController, dropped, failures, firings>>
  /\ UNCHANGED <<pvars, cvars>>

\* reader.read() returns the next n tokens of the body as one chunk
ReadChunk(id, n) ==
  /\ attempts[id].phase = "open"
  /\ ~attempts[id].aborted
  /\ n >= 1
  /\ n <= Len(attempts[id].wire)
  /\ LET chunk == SubSeq(attempts[id].wire, 1, n)
         c == [Cur EXCEPT !.attempts[id].wire = SubSeq(@, n + 1, Len(@))]
     IN Commit(readChunk(c, id, chunk))
  /\ UNCHANGED <<dropped, failures, firings>>

\* reader.read() returns the next n tokens of the body as one chunk, and the
\* flag-change callback of the j-th handleEvent call of the chunk calls
\* close() or pause()
ReadChunkCallback(id, n, j, call) ==
  /\ attempts[id].phase = "open"
  /\ ~attempts[id].aborted
  /\ n >= 1
  /\ n <= Len(attempts[id].wire)
  /\ LET chunk == SubSeq(attempts[id].wire, 1, n)
         calls == processChunk(attempts[id].buffer, chunk).calls
         c == [Cur EXCEPT !.attempts[id].wire = SubSeq(@, n + 1, Len(@))]
     IN /\ j <= Len(calls)
        /\ handleEvent(calls[j].type, calls[j].data) # <<>>
        /\ Commit(readChunkReentrant(c, id, chunk, j, call))
  /\ UNCHANGED <<dropped, failures, firings>>

\* event types and payloads the server uses in the control model, where the
\* reader gets everything the server has written as one chunk
CtlTypes == {"flag-updated"}
CtlPayloads == {P_FLAG_A, P_BAD}
\* event types and payloads the server uses in the stream model
EventTypes == {"flag-updated", "config-updated", "heartbeat", "api-key-rotated", "other"}
Payloads == {P_FLAG_A, P_CONFIG, P_BAD}
RecordLen == Len(Record("flag-updated", P_FLAG_A))

Next ==
  \/ Connect
  \/ Pause
  \/ Resume
  \/ Close
  \/ \E t \in timers : TimerFire(t)
  \/ \E id \in AttemptIds : FetchOk(id)
  \/ \E id \in AttemptIds : FetchFail(id)
  \/ \E id \in AttemptIds : AbortReject(id)
  \/ \E id \in AttemptIds : ReadError(id)
  \/ \E id \in AttemptIds : StreamEnd(id)
  \/ \E id \in AttemptIds, t \in CtlTypes, p \in CtlPayloads :
       Len(attempts[id].sent) < CtlRecords /\ ServerSend(id, t, p)
  \/ \E id \in AttemptIds : ReadChunk(id, Len(attempts[id].wire))

Spec == Init /\ [][Next]_vars

\* one connection and its event stream: every record kind, every chunking
NextStream ==
  \/ attempts = <<>> /\ Connect
  \/ Close
  \/ \E id \in AttemptIds : FetchOk(id)
  \/ \E id \in AttemptIds : AbortReject(id)
  \/ \E id \in AttemptIds : StreamEnd(id)
  \/ \E id \in AttemptIds, t \in EventTypes, p \in Payloads :
       Len(attempts[id].sent) < MaxRecords /\ ServerSend(id, t, p)
  \/ \E id \in AttemptIds, n \in 1..(RecordLen * MaxRecords) : ReadChunk(id, n)
  \/ \E id \in AttemptIds, n \in 1..(RecordLen * MaxRecords), j \in 1..MaxRecords,
        call \in {"close", "pause"} : ReadChunkCallback(id, n, j, call)

SpecStream == Init /\ [][NextStream]_vars

\* ------------------------------------------------------------------ claims
LiveAttempts == {id \in AttemptIds : Live(id)}
\* the timer reconnectTimeout refers to is still pending
ReconnectPending == \E t \in timers : t.id = reconnectTimeout
\* min(1000 * 2^f, 30000)
Backoff(f) == Min(MIN_RETRY_DELAY * (2 ^ f), MAX_RETRY_DELAY)

\* C1: at most one connection attempt is live at any time, and the live one is
\* the attempt abortController controls, so the next connect() aborts it
\* before it starts another.
C1_AtMostOneLive ==
  /\ Cardinality(LiveAttempts) <= 1
  /\ \A id \in LiveAttempts : abortController = id

\* a new attempt is live while the attempt it replaced, aborted by connect(),
\* has not yet delivered its rejection
C1_Witness ==
  \E i, j \in AttemptIds :
    /\ i < j
    /\ InFlight(i) /\ attempts[i].aborted
    /\ Live(j)
    /\ ~paused /\ ~closed

\* C2: once closed, the client stays closed, starts no further connection
\* attempt and holds no pending reconnect timer.
C2_NoAttemptAfterClose ==
  [][ /\ closed' => timers' = {}
      /\ closed => (closed' /\ Len(attempts') = Len(attempts)) ]_vars

\* the client is closed and the failure of the connection that close()
\* cancelled has arrived afterwards
C2_Witness == closed /\ dropped >= 1 /\ Len(attempts) >= 1

\* C3: after close() the status is 'disconnected' in every later state.  Every
\* step notifies at most one status and sets the status to it, so no other
\* status is notified after close() either.
C3_DisconnectedAfterClose == closed => status = "disconnected"

\* closed, and the completions of two earlier attempts (one replaced by a later
\* connect(), one cancelled by close()) have both arrived after close()
C3_Witness == closed /\ dropped >= 2 /\ status = "disconnected"

\* a read, connection or abort error of attempt id is handled in this step
ErrorStep(id) == FetchFail(id) \/ ReadError(id) \/ AbortReject(id)

C5_Original ==
  [][ \A id \in AttemptIds :
        (attempts[id].phase = "open" /\ attempts'[id].phase = "settled" /\ ~closed)
          => [id |-> reconnectTimeout', delay |-> MIN_RETRY_DELAY] \in timers' ]_vars

\* C6 as stated: while the client is paused no reconnect timer is pending and
\* the status is not 'error'.
C6_Original == (paused /\ ~closed) => (timers = {} /\ status # "error")

OneChunkDispatch(text) == dispatchAll(processChunk(<<>>, text).calls)

\* C8 as stated: the events dispatched on a connection are those dispatched
\* when the text received so far arrives as a single chunk.
C8_Original ==
  \A id \in LiveAttempts :
    attempts[id].dispatched = OneChunkDispatch(attempts[id].received)

\* the callback invocations the claim asks of a sequence of handleEvent calls
RECURSIVE C9_Expected(_)
C9_Expected(calls) ==
  IF calls = <<>> THEN <<>>
  ELSE
    LET e == Head(calls)
        parseable == e.data \in {<<P_FLAG_A>>, <<P_CONFIG>>}
        one == IF e.type = <<"flag-updated">> /\ parseable
                 THEN <<[flagKey |-> JSONparse(e.data).flagKey,
                         timestamp |-> JSONparse(e.data).timestamp]>>
               ELSE IF e.type = <<"config-updated">> /\ parseable
                 THEN <<[flagKey |-> NULL, timestamp |-> JSONparse(e.data).timestamp]>>
               ELSE <<>>
    IN one \o C9_Expected(Tail(calls))

ReceivedRecords(id) ==
  SubSeq(attempts[id].sent, 1, Len(attempts[id].received) \div RecordLen)

\* the events a sequence of records carries: one per flag-updated or
\* config-updated record whose payload is valid JSON
RECURSIVE ValidEvents(_)
ValidEvents(records) ==
  IF records = <<>> THEN <<>>
  ELSE
    LET r == Head(records)
        one == IF r.payload = P_BAD THEN <<>>
               ELSE IF r.type = "flag-updated"
                 THEN <<[flagKey |-> JSONparse(<<r.payload>>).flagKey,
                         timestamp |-> JSONparse(<<r.payload>>).timestamp]>>
               ELSE IF r.type = "config-updated"
                 THEN <<[flagKey |-> NULL, timestamp |-> JSONparse(<<r.payload>>).timestamp]>>
               ELSE <<>>
    IN one \o ValidEvents(Tail(records))

\* C10 as stated: when the first record of a connection is a recognized event
\* with a malformed payload, it is dropped, the connection stays 'connected'
\* with no reconnect pending, and every valid event received after it has
\* been dispatched.
C10_Original ==
  \A id \in LiveAttempts :
    LET records == ReceivedRecords(id)
    IN (/\ records # <<>>
        /\ records[1].type \in {"flag-updated", "config-updated", "api-key-rotated"}
        /\ records[1].payload = P_BAD)
       => /\ status = "connected"
          /\ timers = {}
          /\ attempts[id].dispatched = ValidEvents(Tail(records))

\* C11 as stated: no event of a connection is dispatched to the flag-change
\* callback after close() or pause() cancelled the connection.
C11_Original ==
  \A id \in AttemptIds : attempts[id].aborted => attempts[id].dispatched = <<>>

\* -------------------------------------------------------- provider actions
PCommit(p) ==
  /\ providerStatus' = p.status
  /\ sseClient' = p.sseClient
  /\ clients' = p.clients
  /\ pollingTimer' = p.pollingTimer
  /\ isPollingFallbackActive' = p.isPollingFallbackActive
  /\ sseRetryCount' = p.sseRetryCount
  /\ isOnline' = p.isOnline
  /\ hasHandlers' = p.hasHandlers
  /\ listeners' = p.listeners
  /\ refreshes' = p.refreshes
  /\ emitted' = p.emitted
  /\ errorsReported' = p.errorsReported
  /\ flagChanges' = p.flagChanges
  /\ hidden' = p.hidden
  /\ UNCHANGED <<options, accepting, cvars>>
  /\ UNCHANGED svars

ClientIds == 1..Len(clients)
RECURSIVE TotalAttempts(_)
TotalAttempts(cs) ==
  IF cs = <<>> THEN 0 ELSE Len(Head(cs).attempts) + TotalAttempts(Tail(cs))

\* p is within what the model follows
WithinBounds(p) ==
  /\ Len(p.clients) <= MaxClients
  /\ TotalAttempts(p.clients) <= MaxProviderAttempts
  /\ p.refreshes <= MaxRefreshes
  /\ p.listeners <= MaxListeners

\* s without its k-th element
RemoveAt(s, k) == SubSeq(s, 1, k - 1) \o SubSeq(s, k + 1, Len(s))

\* the statuses the validation probe may answer with
Responses == {"200", "204", "401", "403", "404", "500", "network error"}

InitProvider ==
  /\ ClientInit
  /\ CachesIdle
  /\ \E o \in Options, online \in BOOLEAN :
       (o.isBrowser \/ online) /\ ProviderInit(o, online)

\* the application calls initialize(), after any earlier call has settled
Initialize ==
  /\ inits = <<>>
  /\ LET p == initializeStart(PCur)
     IN WithinBounds(p) /\ PCommit(p)
  /\ inits' = IF initializeOffline(PCur) THEN inits ELSE Append(inits, "ofrep")
  /\ UNCHANGED closing

\* ofrepProvider.initialize() resolves
InitOfrepOk(k) ==
  /\ inits[k] = "ofrep"
  /\ LET p == initializeFinish(PCur)
     IN WithinBounds(p) /\ PCommit(p)
  /\ inits' = RemoveAt(inits, k)
  /\ UNCHANGED closing

\* ofrepProvider.initialize() rejects: the validation probe is sent
InitOfrepFail(k) ==
  /\ inits[k] = "ofrep"
  /\ PCommit(PCur)
  /\ inits' = [inits EXCEPT ![k] = "probe"]
  /\ UNCHANGED closing

\* the validation probe is answered
InitProbed(k, response) ==
  /\ inits[k] = "probe"
  /\ LET p == initializeProbed([PCur EXCEPT !.emitted = <<response>>], response)
     IN WithinBounds(p) /\ PCommit(p)
  /\ inits' = RemoveAt(inits, k)
  /\ UNCHANGED closing

\* the application calls onClose(), after any earlier call has settled
OnClose ==
  /\ closing = 0
  /\ PCommit(onCloseStart(PCur))
  /\ closing' = closing + 1
  /\ UNCHANGED inits

\* ofrepProvider.onClose() resolves
OnCloseDone ==
  /\ closing > 0
  /\ PCommit(onCloseDone(PCur))
  /\ closing' = closing - 1
  /\ UNCHANGED inits

\* the application calls reconnectSse()
ReconnectSse ==
  /\ LET p == reconnectSse(PCur)
     IN WithinBounds(p) /\ PCommit(p)
  /\ UNCHANGED <<inits, closing>>

\* handler run once for each of n registered listeners
RECURSIVE runListeners(_, _, _)
runListeners(p, n, online) ==
  IF n = 0 THEN p
  ELSE runListeners(IF online THEN onlineHandler(p) ELSE offlineHandler(p), n - 1, online)

\* the browser signals 'online' on window
OnlineEvent ==
  /\ listeners >= 1
  /\ LET p == runListeners(PCur, listeners, TRUE)
     IN WithinBounds(p) /\ PCommit(p)
  /\ UNCHANGED <<inits, closing>>

\* the browser signals 'offline' on window
OfflineEvent ==
  /\ listeners >= 1
  /\ PCommit(runListeners(PCur, listeners, FALSE))
  /\ UNCHANGED <<inits, closing>>

\* the polling interval elapses
PollTick ==
  /\ pollingTimer
  /\ LET p == pollingCallback(PCur)
     IN WithinBounds(p) /\ PCommit(p)
  /\ UNCHANGED <<inits, closing>>

\* ofrepProvider.onContextChange() resolves (success) or rejects
RefreshDone(success) ==
  /\ refreshes > 0
  /\ PCommit(refreshFlagsDone(PCur, success))
  /\ UNCHANGED <<inits, closing>>

\* client i runs a continuation and becomes c
ClientStep(i, c) ==
  /\ LET p == setClient(PCur, i, c)
     IN WithinBounds(p) /\ PCommit(p)
  /\ UNCHANGED <<inits, closing>>

CInFlight(i, id) == clients[i].attempts[id].phase \in {"fetching", "open"}

CTimerFire(i, t) ==
  /\ t \in clients[i].timers
  /\ ClientStep(i, reconnectCallback([clients[i] EXCEPT !.timers = @ \ {t}]))

CFetchOk(i, id) ==
  /\ clients[i].attempts[id].phase = "fetching"
  /\ ~clients[i].attempts[id].aborted
  /\ ClientStep(i, fetchResolved(clients[i], id))

CFetchFail(i, id) ==
  /\ clients[i].attempts[id].phase = "fetching"
  /\ ~clients[i].attempts[id].aborted
  /\ ClientStep(i, catchError(clients[i], id))

CAbortReject(i, id) ==
  /\ CInFlight(i, id)
  /\ clients[i].attempts[id].aborted
  /\ ClientStep(i, catchError(clients[i], id))

CReadError(i, id) ==
  /\ clients[i].attempts[id].phase = "open"
  /\ ~clients[i].attempts[id].aborted
  /\ ClientStep(i, catchError(clients[i], id))

CStreamEnd(i, id) ==
  /\ clients[i].attempts[id].phase = "open"
  /\ ~clients[i].attempts[id].aborted
  /\ ClientStep(i, streamDone(clients[i], id))

NextProvider ==
  \/ Initialize
  \/ \E k \in 1..Len(inits) : InitOfrepOk(k)
  \/ \E k \in 1..Len(inits) : InitOfrepFail(k)
  \/ \E k \in 1..Len(inits), r \in Responses : InitProbed(k, r)
  \/ OnClose
  \/ OnCloseDone
  \/ ReconnectSse
  \/ OnlineEvent
  \/ OfflineEvent
  \/ PollTick
  \/ \E b \in BOOLEAN : RefreshDone(b)
  \/ \E i \in ClientIds : \E t \in clients[i].timers : CTimerFire(i, t)
  \/ \E i \in ClientIds : \E id \in 1..Len(clients[i].attempts) : CFetchOk(i, id)
  \/ \E i \in ClientIds : \E id \in 1..Len(clients[i].attempts) : CFetchFail(i, id)
  \/ \E i \in ClientIds : \E id \in 1..Len(clients[i].attempts) : CAbortReject(i, id)
  \/ \E i \in ClientIds : \E id \in 1..Len(clients[i].attempts) : CReadError(i, id)
  \/ \E i \in ClientIds : \E id \in 1..Len(clients[i].attempts) : CStreamEnd(i, id)

SpecProvider == InitProvider /\ [][NextProvider]_vars

\* ---------------------------------------------------------- provider claims
\* the attempts of client i whose failure, when it arrives, is reported as an
\* 'error' status: those in flight, on a client that is not closed
FailingAttempts(i) ==
  {id \in 1..Len(clients[i].attempts) : CInFlight(i, id) /\ ~clients[i].closed}

\* the attempts of client i whose fetch may resolve, reporting 'connected'
ConnectingAttempts(i) ==
  {id \in 1..Len(clients[i].attempts) :
     clients[i].attempts[id].phase = "fetching" /\ ~clients[i].attempts[id].aborted}

\* the provider after client i has reported the failure of attempt id
AfterError(i, id) == setClient(PCur, i, catchError(clients[i], id))

\* the provider after client i has reported that attempt id is connected
AfterConnected(i, id) == setClient(PCur, i, fetchResolved(clients[i], id))

\* C12: polling fallback is active only if it is enabled and at least
\* maxSseRetries 'error' statuses were reported since the last 'connected'
\* status; and the report that brings that count to maxSseRetries, on a
\* provider with the fallback enabled, leaves polling active.
C12_FallbackAtThreshold ==
  /\ isPollingFallbackActive =>
       (options.enablePollingFallback /\ errorsReported >= options.maxSseRetries)
  /\ \A i \in ClientIds : \A id \in FailingAttempts(i) :
       LET q == AfterError(i, id)
       IN /\ q.errorsReported = errorsReported + 1
          /\ (options.enablePollingFallback
               /\ q.errorsReported = options.maxSseRetries)
              => q.isPollingFallbackActive

\* the second error since the last 'connected' has just been reported to a
\* provider with maxSseRetries = 2, and started the polling fallback
C12_Witness ==
  /\ options.maxSseRetries = 2
  /\ errorsReported = 2
  /\ isPollingFallbackActive
  /\ emitted = <<"log: Starting polling fallback", "Stale">>

\* C13: a 'connected' report that arrives while the polling fallback is active
\* clears the polling timer and the flag and resets sseRetryCount to 0; the
\* count of errors since the last 'connected' restarts from 0 as well, so the
\* threshold of C12 applies afresh.
C13_ConnectedStopsPolling ==
  \A i \in ClientIds : \A id \in ConnectingAttempts(i) :
    LET q == AfterConnected(i, id)
    IN /\ q.sseRetryCount = 0
       /\ q.errorsReported = 0
       /\ isPollingFallbackActive =>
            /\ ~q.isPollingFallbackActive
            /\ ~q.pollingTimer

\* a connection has just been established while polling was active
C13_Witness ==
  /\ emitted = <<"log: SSE reconnected", "Ready">>
  /\ ~isPollingFallbackActive
  /\ ~pollingTimer
  /\ sseRetryCount = 0
  /\ sseClient # NO_CLIENT
  /\ clients[sseClient].status = "connected"

\* C15: an 'error' report makes the provider status STALE if it was not ERROR
\* and leaves it ERROR if it was ERROR.
C15_Original ==
  \A i \in ClientIds : \A id \in FailingAttempts(i) :
    AfterError(i, id).status =
      IF providerStatus = "ERROR" THEN "ERROR" ELSE "STALE"

\* C16: a 'connected' report received in status STALE makes the status READY
\* and emits Ready; a 'connected' report received in any other status leaves
\* the status unchanged and emits no provider event.
C16_ConnectedWhileStale ==
  \A i \in ClientIds : \A id \in ConnectingAttempts(i) :
    LET q == AfterConnected(i, id)
        events == SelectSeq(q.emitted, LAMBDA e : e \in {"Ready", "Stale", "Error"})
    IN IF providerStatus = "STALE"
       THEN q.status = "READY" /\ events = <<"Ready">>
       ELSE q.status = providerStatus /\ events = <<>>

\* a client has just connected on a provider that was STALE
C16_Witness ==
  /\ emitted = <<"Ready">>
  /\ providerStatus = "READY"
  /\ sseClient # NO_CLIENT
  /\ clients[sseClient].status = "connected"
  /\ errorsReported = 0

\* the probe answers after which initialize() must fail: 401, 403, any other
\* status outside 200-299 except 404, and a rejected fetch
FailingResponses == Responses \ {"200", "204", "404"}

\* whether a call of initialize() is waiting for the validation probe
ProbePending == \E k \in 1..Len(inits) : inits[k] = "probe"

\* the provider after the pending probe has been answered with response
AfterProbe(response) == initializeProbed(PCur, response)

\* C17: when ofrepProvider.initialize() has failed and the validation probe
\* answers 401, 403 or another status outside 200-299 other than 404, or the
\* probe's fetch rejects, initialize() rejects, the status is ERROR, no SSE
\* connection is started and no Ready event is emitted.
C17_ProbeFailure ==
  ProbePending =>
    \A r \in FailingResponses :
      LET q == AfterProbe(r)
      IN /\ q.emitted = <<"initialize rejected">>
         /\ q.status = "ERROR"
         /\ q.sseClient = sseClient
         /\ q.clients = clients

\* an initialize() call has just rejected on a probe answered with status 500
C17_Witness ==
  /\ emitted = <<"500", "initialize rejected">>
  /\ providerStatus = "ERROR"
  /\ sseClient = NO_CLIENT
  /\ clients = <<>>
  /\ inits = <<>>

\* C18: when ofrepProvider.initialize() has failed and the validation probe
\* answers 404, initialize() resolves, the status is READY, a Ready event is
\* emitted, and an SSE connection is started exactly if enableRealtime is set.
C18_Probe404 ==
  ProbePending =>
    LET q == AfterProbe("404")
    IN /\ q.emitted = <<"Ready", "initialize resolved">>
       /\ q.status = "READY"
       /\ IF options.enableRealtime
            THEN /\ Len(q.clients) = Len(clients) + 1
                 /\ q.sseClient = Len(q.clients)
                 /\ q.clients[q.sseClient].status = "connecting"
                 /\ \E id \in 1..Len(q.clients[q.sseClient].attempts) :
                      LET a == q.clients[q.sseClient].attempts[id]
                      IN a.phase = "fetching" /\ ~a.aborted
            ELSE q.sseClient = sseClient /\ q.clients = clients

\* an initialize() call has just resolved on a probe answered with status 404,
\* and its SSE client is connecting
C18_Witness ==
  /\ emitted = <<"404", "Ready", "initialize resolved">>
  /\ providerStatus = "READY"
  /\ sseClient # NO_CLIENT
  /\ clients[sseClient].status = "connecting"
  /\ inits = <<>>

\* C19: onClose() leaves the provider with status NOT_READY, polling inactive
\* and getSseStatus() 'disconnected', whatever the state it was called in.
C19_Original ==
  closing > 0 =>
    LET q == onCloseDone(PCur)
    IN /\ q.status = "NOT_READY"
       /\ ~q.isPollingFallbackActive
       /\ getSseStatus(q) = "disconnected"

\* the provider after the offline event has run every registered offline
\* listener
AfterOffline == runListeners(PCur, listeners, FALSE)

\* C20: directly after an offline event has been handled by a provider with
\* offlineMode enabled, the SSE client (if any) is paused, polling is inactive,
\* isOnline() is false and the status is STALE, whatever the status before.
C20_Offline ==
  listeners >= 1 =>
    LET q == AfterOffline
    IN /\ q.sseClient # NO_CLIENT => q.clients[q.sseClient].paused
       /\ ~q.isPollingFallbackActive
       /\ ~q.pollingTimer
       /\ ~q.isOnline
       /\ q.status = "STALE"

\* an offline event has just been handled by a provider that was READY, with
\* its SSE client connecting
C20_Witness ==
  /\ options.offlineMode
  /\ emitted = <<"Stale">>
  /\ ~isOnline
  /\ providerStatus = "STALE"
  /\ ~isPollingFallbackActive
  /\ sseClient # NO_CLIENT
  /\ clients[sseClient].paused
  /\ \E id \in 1..Len(clients[sseClient].attempts) :
       clients[sseClient].attempts[id].aborted

\* ------------------------------------------------ the fallback and the stream
\* The provider followed without a bound on the number of connection attempts:
\* one initialize(), then the client's timers and completions, the polling
\* timer, and the browser going offline and online. What can no longer act is
\* dropped from the state, and counters are kept up to the value the code
\* compares them with.

\* timers in the order of their delays, then their handles
Before(u, t) == u.delay < t.delay \/ (u.delay = t.delay /\ u.id < t.id)
Rank(T, t) == Cardinality({u \in T : Before(u, t)}) + 1

\* client c without its settled attempts, and with handles renumbered: a
\* settled attempt has no continuation left, abort() of its controller does
\* nothing, and clearTimeout of a handle that fired does nothing
recycle(c) ==
  LET live(id) == c.attempts[id].phase # "settled"
      index(id) == Cardinality({k \in 1..id : live(k)})
  IN [c EXCEPT
        !.attempts = SelectSeq(@, LAMBDA a : a.phase # "settled"),
        !.abortController =
          IF @ # NO_ATTEMPT /\ live(@) THEN index(@) ELSE NO_ATTEMPT,
        !.timers = {[id |-> 0 - Rank(c.timers, t), delay |-> t.delay] : t \in c.timers},
        !.reconnectTimeout =
          IF \E t \in c.timers : t.id = @
            THEN 0 - Rank(c.timers, CHOOSE t \in c.timers : t.id = @)
            ELSE NO_TIMER]

\* sseRetryCount is only compared with maxSseRetries (part_004:1190): counts
\* above it are kept as maxSseRetries; what the step emitted is not kept
saturate(p) ==
  [p EXCEPT !.sseRetryCount = Min(@, p.options.maxSseRetries),
            !.errorsReported = Min(@, p.options.maxSseRetries),
            !.emitted = <<>>,
            !.clients = [i \in DOMAIN @ |-> recycle(@[i])]]

\* attempts in flight and timers pending, over all clients
RECURSIVE Pending(_)
Pending(cs) ==
  IF cs = <<>> THEN 0
  ELSE Len(Head(cs).attempts) + Cardinality(Head(cs).timers) + Pending(Tail(cs))

LCommit(p) ==
  /\ PCommit(saturate(p))
  /\ UNCHANGED closing

\* a provider with the fallback enabled and maxSseRetries 1, online, in a
\* browser
InitLive ==
  /\ ClientInit
  /\ CachesIdle
  /\ ProviderInit([DefaultOptions EXCEPT !.maxSseRetries = 1], TRUE)

\* the application calls initialize(), once
LInitialize ==
  /\ inits = <<>> /\ clients = <<>> /\ providerStatus = "NOT_READY"
  /\ LCommit(initializeStart(PCur))
  /\ inits' = <<"ofrep">>

LInitOfrepOk ==
  /\ inits = <<"ofrep">>
  /\ LCommit(initializeFinish(PCur))
  /\ inits' = <<>>

\* from now on the events endpoint accepts every connection
Accept ==
  /\ ~accepting
  /\ accepting' = TRUE
  /\ UNCHANGED <<svars, options, providerStatus, sseClient, clients, pollingTimer,
                 isPollingFallbackActive, sseRetryCount, isOnline, hasHandlers,
                 listeners, inits, closing, refreshes, emitted, errorsReported,
                 flagChanges, hidden, cvars>>

LClientStep(i, c) ==
  /\ LCommit(setClient(PCur, i, c))
  /\ UNCHANGED inits

LTimerFire(i, t) ==
  /\ t \in clients[i].timers
  /\ LClientStep(i, reconnectCallback([clients[i] EXCEPT !.timers = @ \ {t}]))

LFetchOk(i, id) ==
  /\ id \in ConnectingAttempts(i)
  /\ LClientStep(i, fetchResolved(clients[i], id))

LFetchFail(i, id) ==
  /\ ~accepting
  /\ id \in ConnectingAttempts(i)
  /\ LClientStep(i, catchError(clients[i], id))

LAbortReject(i, id) ==
  /\ CInFlight(i, id)
  /\ clients[i].attempts[id].aborted
  /\ LClientStep(i, catchError(clients[i], id))

LReadError(i, id) ==
  /\ ~accepting
  /\ clients[i].attempts[id].phase = "open"
  /\ ~clients[i].attempts[id].aborted
  /\ LClientStep(i, catchError(clients[i], id))

LStreamEnd(i, id) ==
  /\ ~accepting
  /\ clients[i].attempts[id].phase = "open"
  /\ ~clients[i].attempts[id].aborted
  /\ LClientStep(i, streamDone(clients[i], id))

LOfflineEvent ==
  /\ listeners >= 1
  /\ isOnline
  /\ LCommit(runListeners(PCur, listeners, FALSE))
  /\ UNCHANGED inits

\* the browser is online again; followed while the attempts and timers the
\* clients hold stay within MaxProviderAttempts
LOnlineEvent ==
  /\ listeners >= 1
  /\ ~isOnline
  /\ LET p == runListeners(PCur, listeners, TRUE)
     IN /\ Pending(saturate(p).clients) <= MaxProviderAttempts
        /\ p.refreshes <= MaxRefreshes
        /\ LCommit(p)
  /\ UNCHANGED inits

LPollTick ==
  /\ pollingTimer
  /\ LET p == IF ~isOnline THEN PCur ELSE refreshFlags(PCur)
     IN p.refreshes <= MaxRefreshes /\ LCommit(p)
  /\ UNCHANGED inits

LRefreshDone(success) ==
  /\ refreshes > 0
  /\ LCommit(refreshFlagsDone(PCur, success))
  /\ UNCHANGED inits

ClientTimerFires == \E i \in ClientIds : \E t \in clients[i].timers : LTimerFire(i, t)
ClientFetchResolves ==
  \E i \in ClientIds : \E id \in 1..Len(clients[i].attempts) : LFetchOk(i, id)
ClientAbortRejects ==
  \E i \in ClientIds : \E id \in 1..Len(clients[i].attempts) : LAbortReject(i, id)

NextLive ==
  \/ LInitialize
  \/ LInitOfrepOk
  \/ Accept
  \/ ClientTimerFires
  \/ ClientFetchResolves
  \/ ClientAbortRejects
  \/ \E i \in ClientIds : \E id \in 1..Len(clients[i].attempts) : LFetchFail(i, id)
  \/ \E i \in ClientIds : \E id \in 1..Len(clients[i].attempts) : LReadError(i, id)
  \/ \E i \in ClientIds : \E id \in 1..Len(clients[i].attempts) : LStreamEnd(i, id)
  \/ LOfflineEvent
  \/ LOnlineEvent
  \/ LPollTick
  \/ \E b \in BOOLEAN : LRefreshDone(b)

\* A timer that is due fires and a rejection that is due is delivered. Once the
\* endpoint accepts connections a fetch resolves within less than
\* MIN_RETRY_DELAY, the shortest delay a reconnect timer can have, so while the
\* client keeps a fetch pending, one of them resolves: reconnect timers do not
\* abort every fetch before it resolves.
LiveFairness ==
  /\ WF_vars(ClientTimerFires)
  /\ WF_vars(ClientAbortRejects)
  /\ WF_vars(accepting /\ ClientFetchResolves)

SpecProviderLive == InitLive /\ [][NextLive]_vars /\ LiveFairness

\* the provider's SseClient has a connection attempt in flight or a reconnect
\* timer pending
Retrying ==
  /\ sseClient # NO_CLIENT
  /\ \/ clients[sseClient].timers # {}
     \/ \E id \in 1..Len(clients[sseClient].attempts) : CInFlight(sseClient, id)

\* the provider's SseClient is connected and polling is inactive
ConnectedNoPolling ==
  /\ sseClient # NO_CLIENT
  /\ clients[sseClient].status = "connected"
  /\ ~isPollingFallbackActive

AfterOnline == runListeners(PCur, listeners, TRUE)

\* C21: an online event handled by a provider with offlineMode enabled leaves
\* isOnline true, resumes the provider's SseClient (a paused client is
\* connecting with a new attempt in flight when the handler returns) and has
\* started one refresh per listener; a refresh that succeeds in status STALE
\* makes the status READY and emits Ready, a refresh that succeeds in another
\* status or fails leaves the status as it is, and a failed one emits nothing.
C21_Online ==
  /\ listeners >= 1 =>
       LET q == AfterOnline
       IN /\ q.isOnline
          /\ q.refreshes = refreshes + listeners
          /\ q.status = providerStatus
          /\ (options.enableRealtime /\ sseClient # NO_CLIENT) =>
               /\ q.sseClient = sseClient
               /\ ~q.clients[sseClient].paused
               /\ clients[sseClient].paused =>
                    /\ q.clients[sseClient].status = "connecting"
                    /\ q.clients[sseClient].retryDelay = MIN_RETRY_DELAY
                    /\ Len(q.clients[sseClient].attempts)
                         = Len(clients[sseClient].attempts) + 1
                    /\ LET a == q.clients[sseClient].attempts[
                                  Len(q.clients[sseClient].attempts)]
                       IN a.phase = "fetching" /\ ~a.aborted
  /\ refreshes > 0 =>
       /\ LET q == refreshFlagsDone(PCur, TRUE)
          IN IF providerStatus = "STALE"
               THEN q.status = "READY" /\ q.emitted = <<"Ready", "ConfigurationChanged">>
               ELSE q.status = providerStatus /\ q.emitted = <<"ConfigurationChanged">>
       /\ LET q == refreshFlagsDone(PCur, FALSE)
          IN q.status = providerStatus /\ q.emitted = <<>>

\* the refresh an online event started has just succeeded on a STALE provider
\* whose paused client the event resumed
C21_Witness ==
  /\ options.offlineMode
  /\ isOnline
  /\ ~isPollingFallbackActive
  /\ providerStatus = "READY"
  /\ emitted = <<"Ready", "ConfigurationChanged">>
  /\ refreshes = 0
  /\ sseClient # NO_CLIENT
  /\ ~clients[sseClient].paused
  /\ clients[sseClient].status = "connecting"
  /\ Len(clients[sseClient].attempts) = 2

\* ------------------------------------------------------ flag change events
\* events the model lets the SseClients hand to the provider
MaxEvents == 2

\* "if (event.flagKey)": null, undefined and the empty string are falsy
truthy(flagKey) == flagKey \notin {NULL, UNDEFINED, ""}

\* handleFlagChange(event) up to its await: the user's callback, then the
\* invalidation of the browser cache (persistCache defaults to isBrowser)
handleFlagChange(p, event) ==
  [p EXCEPT
     !.flagChanges.userCalls = Append(@, event),
     !.flagChanges.invalidated =
       IF ~p.options.isBrowser THEN @
       ELSE IF truthy(event.flagKey) THEN Append(@, event.flagKey)
       ELSE Append(@, "all"),
     !.flagChanges.pending = Append(@, event)]

\* handleFlagChange() after its await, with ConfigurationChanged emitted only
\* when the re-fetch succeeded
handleFlagChangeDone_OnlyOnSuccess(p, k, resolved) ==
  LET p1 == [p EXCEPT !.flagChanges.pending = RemoveAt(@, k)]
  IN IF resolved THEN [emit(p1, "ConfigurationChanged")
                   EXCEPT !.flagChanges.notifications = @ + 1]
     ELSE p1

\* the k-th pending handleFlagChange() after its await: resolved tells whether
\* ofrepProvider.onContextChange() resolved; a rejection is caught and logged
handleFlagChangeDone(p, k, resolved) ==
  LET p1 == [p EXCEPT !.flagChanges.pending = RemoveAt(@, k)]
  IN [emit(p1, "ConfigurationChanged") EXCEPT !.flagChanges.notifications = @ + 1]

\* the onFlagChange callback of startSseConnection, run for each event the
\* client dispatched
RECURSIVE deliverAll(_, _)
deliverAll(p, events) ==
  IF events = <<>> THEN p
  ELSE deliverAll(
         handleFlagChange([p EXCEPT !.flagChanges.delivered = Append(@, Head(events))],
                          Head(events)),
         Tail(events))

\* client i reads, on attempt id, a chunk holding one whole record
XEvent(i, id, type, payload) ==
  /\ clients[i].attempts[id].phase = "open"
  /\ ~clients[i].attempts[id].aborted
  /\ LET c == readChunk(clients[i], id, Record(type, payload))
         events == c.attempts[id].dispatched
         c1 == [c EXCEPT !.attempts[id] =
                  [NewAttempt EXCEPT !.phase = "open", !.buffer = c.attempts[id].buffer]]
         p == deliverAll(setClient(PCur, i, c1), events)
     IN /\ Len(p.flagChanges.delivered) <= MaxEvents
        /\ LCommit(p)
  /\ UNCHANGED inits

\* ofrepProvider.onContextChange() of the k-th pending handleFlagChange() settles
XChangeDone(k, resolved) ==
  /\ k \in 1..Len(flagChanges.pending)
  /\ LCommit(handleFlagChangeDone(PCur, k, resolved))
  /\ UNCHANGED inits

ChangeSettles == \E k \in 1..MaxEvents, resolved \in BOOLEAN : XChangeDone(k, resolved)

NextChange ==
  \/ LInitialize
  \/ LInitOfrepOk
  \/ ClientTimerFires
  \/ ClientFetchResolves
  \/ \E i \in ClientIds : \E id \in 1..Len(clients[i].attempts) : LFetchFail(i, id)
  \/ \E i \in ClientIds : \E id \in 1..Len(clients[i].attempts) : LReadError(i, id)
  \/ \E i \in ClientIds : \E id \in 1..Len(clients[i].attempts) : LStreamEnd(i, id)
  \/ \E i \in ClientIds : \E id \in 1..Len(clients[i].attempts) :
       \E type \in {"flag-updated", "config-updated", "heartbeat"} :
         \E payload \in {P_FLAG_A, P_CONFIG} : XEvent(i, id, type, payload)
  \/ ChangeSettles

\* a pending await of the collaborator's re-fetch settles
SpecChange == InitLive /\ [][NextChange]_vars /\ WF_vars(ChangeSettles)

\* C22: every event an SseClient hands to the provider is passed once to the
\* user's onFlagChange, in order; each handleFlagChange() call emits
\* ConfigurationChanged once when its re-fetch settles, resolved or rejected,
\* and it does settle; a rejected re-fetch leaves the provider status and the
\* clients (their connection status included) as they are.
C22_FlagChange ==
  /\ [](/\ flagChanges.userCalls = flagChanges.delivered
        /\ flagChanges.notifications + Len(flagChanges.pending)
             = Len(flagChanges.delivered))
  /\ [](\A k \in 1..Len(flagChanges.pending) :
          LET q == handleFlagChangeDone(PCur, k, FALSE)
          IN /\ q.status = providerStatus
             /\ q.clients = clients
             /\ q.emitted = <<"ConfigurationChanged">>
             /\ q.flagChanges.notifications = flagChanges.notifications + 1)
  /\ \A n \in 1..MaxEvents :
       (Len(flagChanges.delivered) >= n) ~> (flagChanges.notifications >= n)

\* two events were delivered, a flag-updated and a config-updated one, and
\* both calls have emitted their notification
C22_Witness ==
  /\ flagChanges.delivered
       = <<ChangeEvent("my-flag", "2025-01-01T00:00:00Z"),
           ChangeEvent(NULL, "2025-06-15T12:00:00Z")>>
  /\ flagChanges.invalidated = <<"my-flag", "all">>
  /\ flagChanges.pending = <<>>
  /\ flagChanges.notifications = 2

\* --------------------------------------------------------- tab visibility
\* the visibilitychange listener a client registers in its first connect()
visibilityHandler(c, h) == IF h THEN pause(c) ELSE resume(c)

\* document dispatches visibilitychange: the listeners of the clients that are
\* not closed run, in the order the clients were created (close() removes the
\* listener)
RECURSIVE visibilityAll(_, _)
visibilityAll(p, i) ==
  IF i > Len(p.clients) THEN p
  ELSE visibilityAll(
         IF p.clients[i].closed THEN p
         ELSE setClient(p, i, visibilityHandler(p.clients[i], p.hidden)),
         i + 1)

\* the tab becomes hidden (h) or visible (~h), while no initialize() is in
\* flight; the provider passes enableVisibilityHandling, which defaults to
\* isBrowser, to its clients
VisibilityChange(h) ==
  /\ options.isBrowser
  /\ inits = <<>>
  /\ h # hidden
  /\ LET p == visibilityAll([PCur EXCEPT !.hidden = h], 1)
     IN WithinBounds(p) /\ PCommit(p)
  /\ UNCHANGED <<inits, closing>>

\* the application calls initialize() while the tab is visible
VInitialize == ~hidden /\ Initialize

InitVisibility ==
  /\ ClientInit
  /\ CachesIdle
  /\ ProviderInit([DefaultOptions EXCEPT !.maxSseRetries = 1], TRUE)

NextVisibility ==
  \/ VInitialize
  \/ \E k \in 1..Len(inits) : InitOfrepOk(k)
  \/ \E h \in BOOLEAN : VisibilityChange(h)
  \/ OnlineEvent
  \/ OfflineEvent
  \/ ReconnectSse
  \/ \E b \in BOOLEAN : RefreshDone(b)
  \/ \E i \in ClientIds : \E t \in clients[i].timers : CTimerFire(i, t)
  \/ \E i \in ClientIds : \E id \in 1..Len(clients[i].attempts) : CFetchOk(i, id)
  \/ \E i \in ClientIds : \E id \in 1..Len(clients[i].attempts) : CFetchFail(i, id)
  \/ \E i \in ClientIds : \E id \in 1..Len(clients[i].attempts) : CAbortReject(i, id)

SpecVisibility == InitVisibility /\ [][NextVisibility]_vars

\* the attempts of client i that are in flight and not aborted
LiveOf(i) ==
  {id \in 1..Len(clients[i].attempts) :
     CInFlight(i, id) /\ ~clients[i].attempts[id].aborted}

\* C23: while the tab is hidden no SseClient of the provider has a live
\* connection attempt.
C23_Original == hidden => \A i \in ClientIds : LiveOf(i) = {}

\* ------------------------------------------------------------- FlagCache
\* the clock is followed up to MaxNow, and TTLs from 0 to MaxTtl are tried
MaxNow == 3
MaxTtl == 1

\* the keys and the values tried
Keys == {"", "a", "b"}
Values == {"v1", "v2"}

\* Map.delete(key)
delete(m, key) == [k \in DOMAIN m \ {key} |-> m[k]]

\* Map.set(key, entry)
put(m, key, entry) == [k \in DOMAIN m \cup {key} |-> IF k = key THEN entry ELSE m[k]]

\* get() that does not look at expiresAt
FlagCache_get_NoExpiry(c, key, t) ==
  IF key \notin DOMAIN c THEN [cache |-> c, value |-> UNDEFINED]
  ELSE [cache |-> c, value |-> c[key].value]

\* FlagCache.get(key) at time t: the cache afterwards and the value returned
FlagCache_get(c, key, t) ==
  IF key \notin DOMAIN c THEN [cache |-> c, value |-> UNDEFINED]
  ELSE IF t > c[key].expiresAt THEN [cache |-> delete(c, key), value |-> UNDEFINED]
  ELSE [cache |-> c, value |-> c[key].value]

\* FlagCache.set(key, value) at time t
FlagCache_set(c, key, value, t, ttl) ==
  put(c, key, [value |-> value, expiresAt |-> t + ttl])

\* invalidate() that, without a key, deletes the entries of the keys it is given
FlagCache_invalidate_KnownOnly(c, key) ==
  IF truthy(key) THEN delete(c, key) ELSE delete(c, "a")

\* FlagCache.invalidate(key?): key is UNDEFINED when the argument is left out
FlagCache_invalidate(c, key) ==
  IF truthy(key) THEN delete(c, key) ELSE <<>>

\* FlagCache.handleFlagChange(event)
FlagCache_handleFlagChange(c, event) ==
  IF truthy(event.flagKey) THEN FlagCache_invalidate(c, event.flagKey)
  ELSE FlagCache_invalidate(c, UNDEFINED)

\* a FlagCache has been constructed with a TTL
InitCache ==
  /\ ClientInit
  /\ ProviderInit(DefaultOptions, TRUE)
  /\ cache = <<>>
  /\ ttlMs \in 0..MaxTtl
  /\ now = 0
  /\ lastSet = <<>>
  /\ storage = "null"
  /\ items = <<>>
  /\ returned = <<>>

CacheStep(c, call) ==
  /\ cache' = c
  /\ returned' = call
  /\ UNCHANGED <<svars, pvars, ttlMs, now, storage, items>>

CacheSet(key, value) ==
  /\ CacheStep(FlagCache_set(cache, key, value, now, ttlMs),
               [op |-> "set", key |-> key, value |-> value])
  /\ lastSet' = put(lastSet, key, [value |-> value, time |-> now])

CacheGet(key) ==
  LET r == FlagCache_get(cache, key, now)
  IN /\ CacheStep(r.cache, [op |-> "get", key |-> key, value |-> r.value])
     /\ UNCHANGED lastSet

\* invalidate(key), or invalidate() when key is UNDEFINED
CacheInvalidate(key) ==
  /\ CacheStep(FlagCache_invalidate(cache, key),
               [op |-> "invalidate", key |-> key, value |-> UNDEFINED])
  /\ UNCHANGED lastSet

\* handleFlagChange with an event for a key, or for all flags (flagKey null)
CacheFlagChange(flagKey) ==
  /\ CacheStep(FlagCache_handleFlagChange(cache, ChangeEvent(flagKey, "t")),
               [op |-> "handleFlagChange", key |-> flagKey, value |-> UNDEFINED])
  /\ UNCHANGED lastSet

\* a millisecond passes
Tick ==
  /\ now < MaxNow
  /\ now' = now + 1
  /\ UNCHANGED <<svars, pvars, cache, ttlMs, lastSet, storage, items, returned>>

NextCache ==
  \/ \E key \in Keys, value \in Values : CacheSet(key, value)
  \/ \E key \in Keys : CacheGet(key)
  \/ \E key \in Keys \cup {UNDEFINED} : CacheInvalidate(key)
  \/ \E flagKey \in Keys \cup {NULL} : CacheFlagChange(flagKey)
  \/ Tick

SpecCache == InitCache /\ [][NextCache]_vars

\* C24: get(k) directly after set(k, v) returns v, and get(k) returns a value
\* only if it is the value of the last set(k, .) and the time is not later than
\* the time of that set plus the TTL.
C24_CacheTtl ==
  /\ \A k \in Keys, v \in Values :
       FlagCache_get(FlagCache_set(cache, k, v, now, ttlMs), k, now).value = v
  /\ \A k \in Keys :
       LET r == FlagCache_get(cache, k, now)
       IN r.value # UNDEFINED =>
            /\ k \in DOMAIN lastSet
            /\ r.value = lastSet[k].value
            /\ now <= lastSet[k].time + ttlMs

\* get("a") has just returned absent for an entry set more than the TTL ago
C24_Witness ==
  /\ returned = [op |-> "get", key |-> "a", value |-> UNDEFINED]
  /\ "a" \in DOMAIN lastSet
  /\ now > lastSet["a"].time + ttlMs
  /\ "a" \notin DOMAIN cache

\* C25: a change event with a string flagKey removes exactly the entry of that
\* key and leaves every other entry as it is, and so does invalidate(key).
C25_Original ==
  \A k \in Keys :
    /\ FlagCache_handleFlagChange(cache, ChangeEvent(k, "t")) = delete(cache, k)
    /\ FlagCache_invalidate(cache, k) = delete(cache, k)

\* C26: after a change event with flagKey null, and after invalidate() without
\* a key, the cache holds no entry and get(k) is absent for every key.
C26_BulkInvalidation ==
  /\ FlagCache_handleFlagChange(cache, ChangeEvent(NULL, "t")) = <<>>
  /\ FlagCache_invalidate(cache, UNDEFINED) = <<>>
  /\ \A k \in Keys :
       /\ FlagCache_get(FlagCache_handleFlagChange(cache, ChangeEvent(NULL, "t")),
                        k, now).value = UNDEFINED
       /\ FlagCache_get(FlagCache_invalidate(cache, UNDEFINED), k, now).value
            = UNDEFINED

\* a change event with flagKey null has just emptied a cache in which two keys
\* had been set
C26_Witness ==
  /\ returned = [op |-> "handleFlagChange", key |-> NULL, value |-> UNDEFINED]
  /\ {"a", "b"} \subseteq DOMAIN lastSet
  /\ now <= lastSet["a"].time + ttlMs
  /\ now <= lastSet["b"].time + ttlMs
  /\ cache = <<>>

\* C27: connect() on a client that is neither closed nor paused returns with
\* the status 'connecting' and with the status callback already invoked, once,
\* with 'connecting'; on a closed or paused client it invokes nothing; and a
\* client on which no connection attempt was started has status 'disconnected'.
C27_SynchronousStatus ==
  /\ LET d == connect(Cur)
     IN IF closed \/ paused
          THEN d.notified = <<>> /\ d.status = status
          ELSE d.notified = <<"connecting">> /\ d.status = "connecting"
  /\ attempts = <<>> => status = "disconnected"

\* connect() has just returned on a new client
C27_Witness ==
  /\ status = "connecting"
  /\ ~closed /\ ~paused
  /\ Len(attempts) = 1
  /\ attempts[1].phase = "fetching"
  /\ ~attempts[1].aborted

\* C28: initialize() on a provider that is offline, with offlineMode enabled,
\* returns before its first await: the evaluation collaborator is not
\* initialized, no probe is sent and no SseClient is created; the status is
\* STALE, a Stale event is emitted and the call resolves.
C28_OfflineInitialize ==
  (~isOnline /\ options.offlineMode) =>
    LET q == initializeStart(PCur)
    IN /\ initializeOffline(PCur)
       /\ q.status = "STALE"
       /\ q.emitted = <<"Stale", "initialize resolved">>
       /\ q.clients = clients
       /\ q.sseClient = sseClient
       /\ q.refreshes = refreshes

\* initialize() has just resolved on a provider constructed while offline
C28_Witness ==
  /\ ~isOnline
  /\ options.offlineMode
  /\ providerStatus = "STALE"
  /\ emitted = <<"Stale", "initialize resolved">>
  /\ inits = <<>>
  /\ clients = <<>>
  /\ sseClient = NO_CLIENT

\* C30: resume() on a paused client that is not closed clears paused, sets the
\* retry delay to MIN_RETRY_DELAY and, before it returns, starts one new
\* connection attempt and reports 'connecting'; resume() on a client that is
\* not paused, or that is closed, changes no field and reports nothing.
C30_Resume ==
  LET d == resume(Cur)
  IN IF paused /\ ~closed
       THEN /\ ~d.paused
            /\ d.retryDelay = MIN_RETRY_DELAY
            /\ d.status = "connecting"
            /\ d.notified = <<"connecting">>
            /\ Len(d.attempts) = Len(attempts) + 1
            /\ d.abortController = Len(d.attempts)
            /\ d.attempts[Len(d.attempts)].phase = "fetching"
            /\ ~d.attempts[Len(d.attempts)].aborted
       ELSE d = Cur

\* a client that failed, was paused and has been resumed: the delay is back at
\* the minimum and the attempt resume() started is in flight, after the one
\* pause() aborted
C30_Witness ==
  /\ ~paused /\ ~closed
  /\ status = "connecting"
  /\ retryDelay = MIN_RETRY_DELAY
  /\ failures >= 1
  /\ firings = 0
  /\ Len(attempts) >= 3
  /\ abortController = Len(attempts)
  /\ attempts[Len(attempts)].phase = "fetching"
  /\ attempts[Len(attempts) - 1].aborted
  /\ reconnectTimeout = NO_TIMER

\* ---------------------------------------------------------------------------
\* BrowserCache: flag values persisted to localStorage
\* ---------------------------------------------------------------------------

\* storage keys are sequences of their parts, so that startsWith can be told
CACHE_PREFIX == <<"flipswitch:", "flags:">>
CACHE_META_KEY == <<"flipswitch:", "cache-meta">>
\* "this.cacheVersion = 1"
cacheVersion == 1
\* a key of another application in the same localStorage
FOREIGN_KEY == <<"theme">>

\* flag keys handed to the BrowserCache, and the variants stored with a value
BrowserKeys == {"", "a"}
Variants == {UNDEFINED, "on"}
\* largest maxAgeMs handed to isStale
MaxAge == 1

\* the fields of a stored object that hold numbers
NumberFields == {"timestamp", "lastUpdated", "version"}

\* the value null and a value that is not null
Null == [isNull |-> TRUE]
Some(v) == [isNull |-> FALSE, v |-> v]

\* what a method leaves: the store, the value returned, and whether it threw
Ret(its, value) == [items |-> its, value |-> value, threw |-> FALSE]
Throw(its) == [items |-> its, value |-> Null, threw |-> TRUE]

\* "try { body } catch { fallback }": the writes made before the throw stay
tryCatch(body, fallback) ==
  IF body.threw THEN Ret(body.items, fallback) ELSE body

\* "CACHE_PREFIX + flagKey"
cacheKey(flagKey) ==
  IF flagKey = "" THEN CACHE_PREFIX ELSE CACHE_PREFIX \o <<flagKey>>

\* key.keyStartsWith(prefix)
keyStartsWith(key, prefix) ==
  Len(key) >= Len(prefix) /\ SubSeq(key, 1, Len(prefix)) = prefix

\* key.slice(CACHE_PREFIX.length)
sliceKey(key) == IF key = CACHE_PREFIX THEN "" ELSE key[Len(CACHE_PREFIX) + 1]

\* JSON.stringify(object): members whose value is undefined are left out
stringify(o) ==
  [json |-> TRUE,
   text |-> [f \in {g \in DOMAIN o : g \in NumberFields \/ o[g] # UNDEFINED} |-> o[f]]]

\* an item that is not JSON, written by something else
Garbage == [json |-> FALSE, text |-> <<>>]

\* "{ value, timestamp: Date.now(), variant, reason }"
CachedFlag(value, t, variant, reason) ==
  [value |-> value, timestamp |-> t, variant |-> variant, reason |-> reason]

\* "{ lastUpdated: Date.now(), version: this.cacheVersion }"
CacheMeta(t) == [lastUpdated |-> t, version |-> cacheVersion]

\* getStorage(): null without a window, null when the test write throws
getStorage(env) == IF env = "works" THEN "localStorage" ELSE NULL

\* storage.setItem(key, item); room is the number of writes the quota still
\* allows, and a write beyond it throws
setItem(r, key, item) ==
  IF r.threw THEN r
  ELSE IF r.room = 0 THEN [r EXCEPT !.threw = TRUE]
  ELSE [r EXCEPT !.items = put(@, key, item), !.room = @ - 1]

\* updateMeta()
updateMeta(b, r, t) ==
  IF b = NULL \/ r.threw THEN r
  ELSE [setItem(r, CACHE_META_KEY, stringify(CacheMeta(t))) EXCEPT !.threw = FALSE]

\* the item under key parsed, null when there is none, a throw when it is
\* not JSON
readItem(its, key) ==
  IF key \notin DOMAIN its THEN Ret(its, Null)
  ELSE IF ~its[key].json THEN Throw(its)
  ELSE Ret(its, Some(its[key].text))

\* get(flagKey)
BrowserCache_get(b, its, flagKey) ==
  IF b = NULL THEN Ret(its, Null)
  ELSE tryCatch(readItem(its, cacheKey(flagKey)), Null)

\* set(flagKey, value, variant, reason) at time t
BrowserCache_set(b, its, flagKey, value, variant, reason, t, room) ==
  IF b = NULL THEN Ret(its, Null)
  ELSE
    LET w == setItem([items |-> its, room |-> room, threw |-> FALSE],
                     cacheKey(flagKey),
                     stringify(CachedFlag(value, t, variant, reason)))
    IN Ret(updateMeta(b, w, t).items, Null)

RECURSIVE setEach(_, _, _)
\* the loop of setAll over flags
setEach(r, flags, t) ==
  IF flags = <<>> THEN r
  ELSE setEach(setItem(r, cacheKey(flags[1].key),
                       stringify(CachedFlag(flags[1].value, t,
                                            flags[1].variant, flags[1].reason))),
               Tail(flags), t)

\* setAll(flags) at time t
BrowserCache_setAll(b, its, flags, t, room) ==
  IF b = NULL THEN Ret(its, Null)
  ELSE
    LET w == setEach([items |-> its, room |-> room, threw |-> FALSE], flags, t)
    IN Ret(updateMeta(b, w, t).items, Null)

RECURSIVE getEach(_, _, _)
\* the loop of getAll; order is the order in which storage.key(i) lists the
\* keys, and a throw ends the loop with what was collected
getEach(its, order, result) ==
  IF order = <<>> THEN result
  ELSE IF ~keyStartsWith(order[1], CACHE_PREFIX)
    THEN getEach(its, Tail(order), result)
  ELSE
    LET r == readItem(its, order[1])
    IN IF r.threw THEN result
       ELSE getEach(its, Tail(order), put(result, sliceKey(order[1]), r.value.v))

\* getAll()
BrowserCache_getAll(b, its, order) ==
  IF b = NULL THEN Ret(its, <<>>)
  ELSE Ret(its, getEach(its, order, <<>>))

\* invalidate(flagKey), or invalidate() when flagKey is UNDEFINED
BrowserCache_invalidate(b, its, flagKey, t, room) ==
  IF b = NULL THEN Ret(its, Null)
  ELSE
    LET left == IF truthy(flagKey)
                  THEN delete(its, cacheKey(flagKey))
                  ELSE [k \in {x \in DOMAIN its : ~keyStartsWith(x, CACHE_PREFIX)} |-> its[k]]
        w == [items |-> left, room |-> room, threw |-> FALSE]
    IN Ret(updateMeta(b, w, t).items, Null)

\* getMeta()
BrowserCache_getMeta(b, its) ==
  IF b = NULL THEN Ret(its, Null)
  ELSE tryCatch(readItem(its, CACHE_META_KEY), Null)

\* getAge(flagKey) at time t
BrowserCache_getAge(b, its, flagKey, t) ==
  LET cached == BrowserCache_get(b, its, flagKey)
  IN IF cached.value.isNull THEN Ret(its, Null)
     ELSE Ret(its, Some(t - cached.value.v.timestamp))

\* isStale() without the test of a null age: null > maxAgeMs compares 0
BrowserCache_isStale_NoNullTest(b, its, flagKey, maxAgeMs, t) ==
  LET age == BrowserCache_getAge(b, its, flagKey, t)
  IN Ret(its, (IF age.value.isNull THEN 0 ELSE age.value.v) > maxAgeMs)

\* isStale(flagKey, maxAgeMs) at time t
BrowserCache_isStale(b, its, flagKey, maxAgeMs, t) ==
  LET age == BrowserCache_getAge(b, its, flagKey, t)
  IN IF age.value.isNull THEN Ret(its, TRUE)
     ELSE Ret(its, age.value.v > maxAgeMs)

\* clear()
BrowserCache_clear(b, its) ==
  IF b = NULL THEN Ret(its, Null)
  ELSE Ret([k \in {x \in DOMAIN its : ~keyStartsWith(x, <<"flipswitch:">>)} |-> its[k]], Null)

\* what localStorage may hold when the page loads
StoredBefore ==
  LET theme == [k \in {FOREIGN_KEY} |-> Garbage]
  IN { theme,
       put(theme, cacheKey("a"), stringify(CachedFlag("v1", 0, "on", UNDEFINED))),
       put(put(theme, cacheKey("a"), stringify(CachedFlag("v1", 0, "on", UNDEFINED))),
           CACHE_META_KEY, stringify(CacheMeta(0))),
       put(theme, cacheKey("a"), Garbage) }

\* a BrowserCache has been constructed: without a window, with a localStorage
\* that throws, or with one that works
InitBrowserCache ==
  /\ ClientInit
  /\ ProviderInit(DefaultOptions, TRUE)
  /\ cache = <<>>
  /\ ttlMs = 0
  /\ now = 0
  /\ lastSet = <<>>
  /\ returned = <<>>
  /\ \E env \in {"no window", "throws", "works"} :
       /\ storage = getStorage(env)
       /\ items \in (IF env = "no window" THEN {<<>>} ELSE StoredBefore)

BrowserStep(r, op) ==
  /\ items' = r.items
  /\ returned' = [op |-> op, value |-> r.value, threw |-> r.threw]
  /\ UNCHANGED <<svars, pvars, cache, ttlMs, now, lastSet, storage>>

\* the orders in which the keys of a store can be listed
Orders(its) ==
  {o \in [1..Cardinality(DOMAIN its) -> DOMAIN its] :
     \A i, j \in DOMAIN o : o[i] = o[j] => i = j}

\* the flag lists handed to setAll
FlagLists ==
  { <<>>,
    <<[key |-> "a", value |-> "v1", variant |-> "on", reason |-> UNDEFINED]>>,
    <<[key |-> "a", value |-> "v2", variant |-> UNDEFINED, reason |-> UNDEFINED],
      [key |-> "", value |-> "v1", variant |-> UNDEFINED, reason |-> UNDEFINED]>> }

BrowserGet(flagKey) == BrowserStep(BrowserCache_get(storage, items, flagKey), "get")

BrowserSet(flagKey, value, variant, room) ==
  BrowserStep(BrowserCache_set(storage, items, flagKey, value, variant, UNDEFINED, now, room), "set")

BrowserSetAll(flags, room) ==
  BrowserStep(BrowserCache_setAll(storage, items, flags, now, room), "setAll")

BrowserGetAll(order) == BrowserStep(BrowserCache_getAll(storage, items, order), "getAll")

BrowserInvalidate(flagKey, room) ==
  BrowserStep(BrowserCache_invalidate(storage, items, flagKey, now, room), "invalidate")

BrowserGetMeta == BrowserStep(BrowserCache_getMeta(storage, items), "getMeta")

BrowserGetAge(flagKey) ==
  BrowserStep(BrowserCache_getAge(storage, items, flagKey, now), "getAge")

BrowserIsStale(flagKey, maxAgeMs) ==
  BrowserStep(BrowserCache_isStale(storage, items, flagKey, maxAgeMs, now), "isStale")

BrowserClear == BrowserStep(BrowserCache_clear(storage, items), "clear")

NextBrowserCache ==
  \/ \E flagKey \in BrowserKeys : BrowserGet(flagKey)
  \/ \E flagKey \in BrowserKeys, variant \in Variants, room \in 0..2 :
       BrowserSet(flagKey, "v1", variant, room)
  \/ \E flags \in FlagLists, room \in 0..3 : BrowserSetAll(flags, room)
  \/ \E order \in Orders(items) : BrowserGetAll(order)
  \/ \E flagKey \in BrowserKeys \cup {UNDEFINED}, room \in 0..1 :
       BrowserInvalidate(flagKey, room)
  \/ BrowserGetMeta
  \/ \E flagKey \in BrowserKeys : BrowserGetAge(flagKey)
  \/ \E flagKey \in BrowserKeys, maxAgeMs \in 0..MaxAge : BrowserIsStale(flagKey, maxAgeMs)
  \/ BrowserClear
  \/ Tick

SpecBrowserCache == InitBrowserCache /\ [][NextBrowserCache]_vars

\* the result of a call that did nothing: the store as it was, no exception
NoOp(r, value) == r.items = items /\ ~r.threw /\ r.value = value

\* C29: with storage null (no window, or a localStorage whose test write
\* throws) no BrowserCache method throws or changes the store: get, getMeta and
\* getAge return null, getAll returns an empty map, isStale returns true, and
\* set, setAll, invalidate and clear leave every item as it is.
C29_StorageUnavailable ==
  storage = NULL =>
    /\ NoOp(BrowserCache_getMeta(storage, items), Null)
    /\ NoOp(BrowserCache_clear(storage, items), Null)
    /\ \A order \in Orders(items) :
         NoOp(BrowserCache_getAll(storage, items, order), <<>>)
    /\ \A flags \in FlagLists, room \in 0..3 :
         NoOp(BrowserCache_setAll(storage, items, flags, now, room), Null)
    /\ \A flagKey \in BrowserKeys \cup {UNDEFINED}, room \in 0..1 :
         NoOp(BrowserCache_invalidate(storage, items, flagKey, now, room), Null)
    /\ \A flagKey \in BrowserKeys :
         /\ NoOp(BrowserCache_get(storage, items, flagKey), Null)
         /\ NoOp(BrowserCache_getAge(storage, items, flagKey, now), Null)
         /\ \A maxAgeMs \in 0..MaxAge :
              NoOp(BrowserCache_isStale(storage, items, flagKey, maxAgeMs, now), TRUE)
         /\ \A variant \in Variants, room \in 0..2 :
              NoOp(BrowserCache_set(storage, items, flagKey, "v1", variant, UNDEFINED, now, room), Null)

\* isStale("a", .) has just returned true on a cache without storage, while
\* the localStorage that refused the test write holds an entry for "a"
C29_Witness ==
  /\ storage = NULL
  /\ cacheKey("a") \in DOMAIN items
  /\ items[cacheKey("a")].json
  /\ returned # <<>>
  /\ returned.op = "isStale"
  /\ ~returned.threw
  /\ returned.value = TRUE

\* C31: connect() on a client that is closed or paused returns at its first
\* line: status, retry delay, reconnect timer, pending timers, abort controller
\* and attempts are as before and the status callback is not invoked.
C31_ConnectNoOp ==
  (closed \/ paused) =>
    LET d == connect(Cur)
    IN /\ d.status = status
       /\ d.retryDelay = retryDelay
       /\ d.reconnectTimeout = reconnectTimeout
       /\ d.timers = timers
       /\ d.abortController = abortController
       /\ d.attempts = attempts
       /\ d.closed = closed
       /\ d.paused = paused
       /\ d.notified = <<>>

\* a client paused after a failure doubled its delay: connect() finds it
\* paused with no attempt in flight
C31_Witness ==
  /\ paused /\ ~closed
  /\ status = "disconnected"
  /\ retryDelay > MIN_RETRY_DELAY
  /\ abortController = NO_ATTEMPT
  /\ reconnectTimeout = NO_TIMER
  /\ attempts # <<>>

\* C32: while the polling timer runs, a tick starts one refresh when the
\* provider is online and does nothing when it is offline; a refresh that
\* fails leaves the timer, the fallback flag and the status as they are and
\* emits nothing; startPollingFallback() on a running fallback changes nothing.
C32_PollingTick ==
  pollingTimer =>
    /\ LET q == pollingCallback(PCur)
       IN IF isOnline
            THEN q = [PCur EXCEPT !.refreshes = refreshes + 1]
            ELSE q = PCur
    /\ refreshes > 0 =>
         LET q == refreshFlagsDone(PCur, FALSE)
         IN /\ q.pollingTimer
            /\ q.isPollingFallbackActive
            /\ q = [PCur EXCEPT !.refreshes = refreshes - 1]
    /\ startPollingFallback(PCur) = PCur

\* the fallback is running and a tick has started a refresh
C32_Witness ==
  /\ pollingTimer
  /\ isPollingFallbackActive
  /\ isOnline
  /\ providerStatus = "STALE"
  /\ refreshes = 1

\* C33: a client on which connect() has been called and which is neither
\* closed nor paused has a live connection attempt (fetch in flight or stream
\* open, not aborted) or a pending reconnect timer.
C33_NoDeadState ==
  (attempts # <<>> /\ ~closed /\ ~paused) => (LiveAttempts # {} \/ timers # {})

\* the stream has failed and nothing is in flight: the reconnect timer is all
\* that brings the client back
C33_Witness ==
  /\ attempts # <<>> /\ ~closed /\ ~paused
  /\ status = "error"
  /\ LiveAttempts = {}
  /\ \A id \in AttemptIds : ~InFlight(id)
  /\ ReconnectPending

\* C34: while the status is 'connected' no reconnect timer is pending.
C34_Original == status = "connected" => timers = {}

\* ---------------------------------------------------------------------------
\* One SseClient against an events endpoint that accepts every connection and
\* never ends or fails the stream: the application calls connect(), pause()
\* and resume(); fetches resolve with an open stream, aborted fetches and reads
\* reject, timers fire.
\* ---------------------------------------------------------------------------

\* attempts one client may have unsettled at once
MaxInFlight == 3

StableCommit(c) ==
  /\ Len(recycle(c).attempts) <= MaxInFlight
  /\ Commit(recycle(c))
  /\ UNCHANGED <<dropped, failures, firings>>

StableConnect == StableCommit(connect(Cur))
StablePause == StableCommit(pause(Cur))
StableResume == StableCommit(resume(Cur))

\* a call of the application
StableCall == StableConnect \/ StablePause \/ StableResume

StableTimerFire ==
  \E t \in timers : StableCommit(reconnectCallback([Cur EXCEPT !.timers = @ \ {t}]))

StableFetchOk ==
  \E id \in AttemptIds :
    /\ attempts[id].phase = "fetching"
    /\ ~attempts[id].aborted
    /\ StableCommit(fetchResolved(Cur, id))

StableAbortReject ==
  \E id \in AttemptIds :
    /\ InFlight(id)
    /\ attempts[id].aborted
    /\ StableCommit(catchError(Cur, id))

NextStable ==
  \/ StableConnect
  \/ StablePause
  \/ StableResume
  \/ StableTimerFire
  \/ StableFetchOk
  \/ StableAbortReject

\* a timer fires when its delay has passed, the endpoint answers every fetch
\* that is not aborted, and an aborted fetch or read rejects
StableFairness ==
  /\ WF_vars(StableTimerFire)
  /\ WF_vars(StableFetchOk)
  /\ WF_vars(StableAbortReject)

SpecStable == Init /\ [][NextStable]_vars /\ StableFairness

\* C35: once the application makes no further call and has left the client
\* connected to, not paused, the status becomes 'connected' and stays so.
C35_Original ==
  (<>[][~StableCall]_vars /\ <>[](~paused /\ status # "disconnected"))
    => <>[](status = "connected")

\* C36: isPollingActive() is true exactly when a polling interval timer
\* exists, and startPollingFallback() and stopPolling() keep it so.
C36_FlagIffTimer ==
  /\ isPollingFallbackActive <=> pollingTimer
  /\ LET q == startPollingFallback(PCur)
     IN q.isPollingFallbackActive <=> q.pollingTimer
  /\ LET q == stopPolling(PCur)
     IN ~q.isPollingFallbackActive /\ ~q.pollingTimer

\* the fallback has been started by the error that reached maxSseRetries
C36_Witness ==
  /\ isPollingFallbackActive
  /\ pollingTimer
  /\ sseRetryCount >= options.maxSseRetries
  /\ options.enablePollingFallback

\* C37: while a provider with offlineMode is offline, polling fallback is not
\* active.
C37_Original ==
  (options.offlineMode /\ hasHandlers /\ ~isOnline) => ~isPollingFallbackActive

\* the SseClients the provider has created and not closed
OpenClients == {i \in ClientIds : ~clients[i].closed}

\* C38: at most one SseClient of the provider is not closed.
C38_Original == Cardinality(OpenClients) <= 1

\* onClose() has completed and no initialize() has been called since it
\* started: the listeners are removed and every SseClient is closed
ShutDown ==
  /\ closing = 0
  /\ inits = <<>>
  /\ providerStatus = "NOT_READY"
  /\ sseClient = NO_CLIENT
  /\ listeners = 0
  /\ OpenClients = {}

\* C39: a step of a provider that is shut down, other than a call of
\* initialize(), emits no Ready, Stale or ConfigurationChanged and leaves the
\* status NOT_READY.
C39_Original ==
  [][(ShutDown /\ ~Initialize) =>
       /\ providerStatus' = "NOT_READY"
       /\ \A k \in 1..Len(emitted') :
            emitted'[k] \notin {"Ready", "Stale", "ConfigurationChanged"}]_vars

\* C40: a provider with enableRealtime whose status is READY holds an
\* SseClient that is not closed.
C40_Original ==
  (options.enableRealtime /\ providerStatus = "READY") =>
    (sseClient # NO_CLIENT /\ ~clients[sseClient].closed)

====
